---- MODULE Spec2Model ----
(***************************************************************************)
(* The incremental PHP workspace symbol index of the extension             *)
(* (src/unnamed/part_002): symbol extraction, per-file update and          *)
(* deletion, the members cache, the coalesced full build, the debounced    *)
(* re-index timers and definition lookup.                                  *)
(*                                                                         *)
(* A document text is a sequence of lines, a line a sequence of tokens;    *)
(* an offset is an index into the flattened token sequence.  The regular   *)
(* expressions of the source are matched token by token.  A symbol key is  *)
(* a sequence of tokens as well ("App", "\\", "Greeter", "::", "hello"),   *)
(* so that prefix tests and splits on "\\", "::" and "->" are computed.    *)
(***************************************************************************)
EXTENDS Integers, Sequences, FiniteSets, TLC

VARIABLES
  phpWorkspaceIndex,                \* key -> sequence of Locations
  phpWorkspaceIndexKeysByUri,       \* uri -> set of keys the file contributed
  phpWorkspaceIndexVersion,         \* counter
  phpWorkspaceMembersCache,         \* class key -> [version, value]
  phpWorkspaceSymbolInfo,           \* key -> sequence of [uriKey, kind, containerName]
  phpWorkspaceClassInfoByFqn,       \* insertion-ordered map: sequence of ClassInfo
  phpWorkspaceClassFqnsByShortName, \* short name -> sequence of FQNs
  phpWorkspaceFunctionInfoByKey,    \* key -> sequence of [uriKey, label]
  phpWorkspaceIndexBuilding,        \* the pending-build token and the build's position
  phpIndexTimersByUri,              \* uri -> delay of its pending re-index timer
  timeouts,                         \* uri -> number of live timer callbacks of scheduleIndexUpdate
  disk,                             \* uri -> text on disk, or Absent
  textDocuments,                    \* uri -> text of the open editor document, or Absent
  callers,                          \* caller -> state of its ensurePhpWorkspaceIndex call
  definitionRequest,                \* the provideDefinition call in progress
  lastOp,                           \* history: the last operation performed
  updateHistory,                    \* history: texts of the last two updates of each file
  indexedText,                      \* history: the text each file was last indexed with
  closedSince,                      \* history: files closed and not re-indexed since
  deletedSince,                     \* history: files deleted from the workspace, and the builds since
  scansStarted,                     \* history: number of full scans started
  scansActive,                      \* history: number of full scans in flight
  indexScan,                        \* history: the files the last full scan found and handled
  phpWorkspaceReferenceIndex,       \* reference key -> sequence of call-site Locations
  phpWorkspaceReferenceIndexVersion, \* the index version recorded by the last reference build
  phpWorkspaceReferenceIndexBuilding, \* the pending reference build and its position
  referenceCallers,                 \* caller -> state of its ensurePhpWorkspaceReferenceIndex call
  referenceScan,                    \* history: what the reference build in flight has read, and at which index version
  laravelRouteIndex,                \* route name -> sequence of Locations
  laravelRouteIndexKeysByUri,       \* uri -> set of route names the file contributed
  laravelRouteIndexVersion,         \* counter
  routeIndexedText,                 \* history: the text last indexed for each route file
  laravelRouteIndexBuilding,        \* the pending route build and its position
  laravelIndexTimersByUri,          \* uri -> delay of its pending route re-index timer
  debouncerTimers,                  \* Debouncer.timers: key -> handle of its pending timer
  liveTimeouts,                     \* the handles of the host's timers that can still fire
  debounceLog,                      \* history: the calls made on the Debouncer and the actions run
  settledPromises,                  \* history: the debounceAsync calls whose promise has settled
  phpBuiltInFunctionSignatureCache, \* cache key -> signature label
  reflection                        \* the built-in signature lookup in progress

vars == << phpWorkspaceIndex, phpWorkspaceIndexKeysByUri, phpWorkspaceIndexVersion,
           phpWorkspaceMembersCache, phpWorkspaceSymbolInfo, phpWorkspaceClassInfoByFqn,
           phpWorkspaceClassFqnsByShortName, phpWorkspaceFunctionInfoByKey,
           phpWorkspaceIndexBuilding, phpIndexTimersByUri, timeouts, disk, textDocuments,
           callers, definitionRequest, lastOp, updateHistory, indexedText,
           closedSince, deletedSince, scansStarted, scansActive, indexScan,
           phpWorkspaceReferenceIndex, phpWorkspaceReferenceIndexVersion,
           phpWorkspaceReferenceIndexBuilding, referenceCallers, referenceScan,
           laravelRouteIndex, laravelRouteIndexKeysByUri, laravelRouteIndexVersion,
           routeIndexedText, laravelRouteIndexBuilding, laravelIndexTimersByUri,
           debouncerTimers, liveTimeouts, debounceLog, settledPromises,
           phpBuiltInFunctionSignatureCache, reflection >>

debouncerVars == << debouncerTimers, liveTimeouts, debounceLog, settledPromises >>

reflectionVars == << phpBuiltInFunctionSignatureCache, reflection >>

\* The state of the Debouncer and of the built-in signature lookup, which no
\* operation of the indexes touches.
serviceVars == << debouncerVars, reflectionVars >>

referenceVars == << phpWorkspaceReferenceIndex, phpWorkspaceReferenceIndexVersion,
                    phpWorkspaceReferenceIndexBuilding, referenceCallers, referenceScan >>

routeVars == << laravelRouteIndex, laravelRouteIndexKeysByUri, laravelRouteIndexVersion,
                routeIndexedText,
                laravelRouteIndexBuilding, laravelIndexTimersByUri >>

otherIndexVars == << referenceVars, routeVars >>

routeIndexVars == << laravelRouteIndex, laravelRouteIndexKeysByUri, laravelRouteIndexVersion,
                     routeIndexedText >>

indexVars == << phpWorkspaceIndex, phpWorkspaceIndexKeysByUri, phpWorkspaceIndexVersion,
                phpWorkspaceSymbolInfo, phpWorkspaceClassInfoByFqn,
                phpWorkspaceClassFqnsByShortName, phpWorkspaceFunctionInfoByKey >>

-----------------------------------------------------------------------------
(* Bounds and input sets *)

MaxVersion == 5

\* A call repeated more than MaxRepeat times in a row is recorded as MaxRepeat times.
MaxRepeat == 3
MaxScans == 3

Files == {"A", "B"}

Absent == << <<"<absent>">> >>

\* namespace App; class Greeter { public $foo; function hello() {} }
TextAppGreeterFoo ==
  << <<"namespace", "App", ";">>,
     <<"class", "Greeter", "{">>,
     <<"public", "$", "foo", ";">>,
     <<"function", "hello", "(", ")", "{", "}">>,
     <<"}">> >>

\* namespace App; class Greeter { public $bar; }
TextAppGreeterBar ==
  << <<"namespace", "App", ";">>,
     <<"class", "Greeter", "{">>,
     <<"public", "$", "bar", ";">>,
     <<"}">> >>

\* namespace Other; final class Greeter { function hi() {} const MAX = 1; }
TextOtherGreeter ==
  << <<"namespace", "Other", ";">>,
     <<"final", "class", "Greeter", "{">>,
     <<"function", "hi", "(", ")", "{", "}">>,
     <<"const", "MAX", "=", "1", ";">>,
     <<"}">> >>

\* function f() {}  f();  const F = 1;  define('G', 1);
TextFunctionF ==
  << <<"function", "f", "(", ")", "{", "}">>,
     <<"f", "(", ")", ";">>,
     <<"const", "F", "=", "1", ";">>,
     <<"define", "(", "'", "G", "'", ",", "1", ")", ";">> >>

\* class f {}  define('F', 1);  f();
TextClassF ==
  << <<"class", "f", "{", "}">>,
     <<"define", "(", "'", "F", "'", ",", "1", ")", ";">>,
     <<"f", "(", ")", ";">> >>

\* echo 1;  f();
TextNoSymbols ==
  << <<"echo", "1", ";">>,
     <<"f", "(", ")", ";">> >>

\* f();  Greeter::hi();  $g->hello();
TextCalls ==
  << <<"f", "(", ")", ";">>,
     <<"Greeter", "::", "hi", "(", ")", ";">>,
     <<"$", "g", "->", "hello", "(", ")", ";">> >>

\* function f() {}  Route::get()->name('home');
TextRoutes ==
  << <<"function", "f", "(", ")", "{", "}">>,
     <<"Route", "::", "get", "(", ")", "->", "name", "(", "'", "home", "'", ")", ";">> >>

\* Route::name('admin');  Route::get()->name('home');
TextRouteGroup ==
  << <<"Route", "::", "name", "(", "'", "admin", "'", ")", ";">>,
     <<"Route", "::", "get", "(", ")", "->", "name", "(", "'", "home", "'", ")", ";">> >>

Texts == { TextAppGreeterFoo, TextAppGreeterBar, TextOtherGreeter,
           TextFunctionF, TextClassF, TextNoSymbols, TextCalls }

\* namespace App; function helper() {} const LIMIT = 1; define('FLAG', 1);
\* interface Shape { function area(); }
TextAppHelpers ==
  << <<"namespace", "App", ";">>,
     <<"function", "helper", "(", ")", "{", "}">>,
     <<"const", "LIMIT", "=", "1", ";">>,
     <<"define", "(", "'", "FLAG", "'", ",", "1", ")", ";">>,
     <<"interface", "Shape", "{", "function", "area", "(", ")", ";", "}">> >>

\* namespace App; class Broken { function hello() {}      (the class is not closed)
TextBroken ==
  << <<"namespace", "App", ";">>,
     <<"class", "Broken", "{">>,
     <<"function", "hello", "(", ")", "{", "}">> >>

\* function hello(string $name): string {}
TextTyped ==
  << <<"function", "hello", "(", "string", "$", "name", ")", ":", "string", "{", "}">> >>

\* /**
\*  * @param string $name
\*  * @return string
\*  */
\* function hello($name, int ...$rest) {}
TextDocblock ==
  << <<"/**">>,
     <<"@param", "string", "$", "name">>,
     <<"@return", "string">>,
     <<"*/">>,
     <<"function", "hello", "(", "$", "name", ",", "int", "...", "$", "rest", ")", "{", "}">> >>

\* /**
\*  * @param string $name
\*  * @param int $name
\*  * @return string
\*  * @return int
\*  */
\* function greet($name) {}
TextRepeatedTags ==
  << <<"/**">>,
     <<"@param", "string", "$", "name">>,
     <<"@param", "int", "$", "name">>,
     <<"@return", "string">>,
     <<"@return", "int">>,
     <<"*/">>,
     <<"function", "greet", "(", "$", "name", ")", "{", "}">> >>

\* /**
\*  * @param array $items
\*  * @param int $size
\*  * @param iterable $items
\*  */
\* function pack($items, $size) {}
TextRepeatedParam ==
  << <<"/**">>,
     <<"@param", "array", "$", "items">>,
     <<"@param", "int", "$", "size">>,
     <<"@param", "iterable", "$", "items">>,
     <<"*/">>,
     <<"function", "pack", "(", "$", "items", ",", "$", "size", ")", "{", "}">> >>

\* /** @var Foo $x */
\* $x = 1;
TextVarTag ==
  << <<"/**", "@var", "Foo", "$", "x", "*/">>,
     <<"$", "x", "=", "1", ";">> >>

\* namespace App;
\* /** @param Foo $item */
\* $item = new Bar();
TextParamTag ==
  << <<"namespace", "App", ";">>,
     <<"/**", "@param", "Foo", "$", "item", "*/">>,
     <<"$", "item", "=", "new", "Bar", "(", ")", ";">> >>

\* function make(): Foo {}
\* /** @return Baz */
\* $y = make();
\* $z = $y;
TextCallAssigned ==
  << <<"function", "make", "(", ")", ":", "Foo", "{", "}">>,
     <<"/**", "@return", "Baz", "*/">>,
     <<"$", "y", "=", "make", "(", ")", ";">>,
     <<"$", "z", "=", "$", "y", ";">> >>

\* $n = 1;
\* $list = [];
\* $m = $n;
TextAssigned ==
  << <<"$", "n", "=", "1", ";">>,
     <<"$", "list", "=", "[", "]", ";">>,
     <<"$", "m", "=", "$", "n", ";">> >>

\* class Greeter {
\* function hello() {}
\* function run() { $this->hello(); }
\* }
TextThisInClass ==
  << <<"class", "Greeter", "{">>,
     <<"function", "hello", "(", ")", "{", "}">>,
     <<"function", "run", "(", ")", "{", "$", "this", "->", "hello", "(", ")", ";", "}">>,
     <<"}">> >>

\* class Greeter {
\* function hello() {}
\* }
\* function stray() { $this->hello(); }
TextThisAfterClass ==
  << <<"class", "Greeter", "{">>,
     <<"function", "hello", "(", ")", "{", "}">>,
     <<"}">>,
     <<"function", "stray", "(", ")", "{", "$", "this", "->", "hello", "(", ")", ";", "}">> >>

\* class First { function hello() {} }
\* class Second { function hello() {} function run() { $this->hello(); } }
TextThisTwoClasses ==
  << <<"class", "First", "{", "function", "hello", "(", ")", "{", "}", "}">>,
     <<"class", "Second", "{", "function", "hello", "(", ")", "{", "}">>,
     <<"function", "run", "(", ")", "{", "$", "this", "->", "hello", "(", ")", ";", "}", "}">> >>

\* function early() { $this->limit; }
\* class Late { const LIMIT = 1; }
TextThisBeforeClass ==
  << <<"function", "early", "(", ")", "{", "$", "this", "->", "limit", ";", "}">>,
     <<"class", "Late", "{", "const", "LIMIT", "=", "1", ";", "}">> >>

\* class Late { const LIMIT = 1; function run() { $this->limit; } }
TextThisConstant ==
  << <<"class", "Late", "{", "const", "LIMIT", "=", "1", ";">>,
     <<"function", "run", "(", ")", "{", "$", "this", "->", "limit", ";", "}", "}">> >>

\* namespace Legacy; class Greeter { function hello() {} }
TextLegacyGreeter ==
  << <<"namespace", "Legacy", ";">>,
     <<"class", "Greeter", "{", "function", "hello", "(", ")", "{", "}", "}">> >>

\* use App\Greeter;  Greeter::hello();
TextStaticAliased ==
  << <<"use", "App", "\\", "Greeter", ";">>,
     <<"Greeter", "::", "hello", "(", ")", ";">> >>

\* Greeter::hello();
TextStaticShort ==
  << <<"Greeter", "::", "hello", "(", ")", ";">> >>

\* \Legacy\Greeter::hello();
TextStaticQualified ==
  << <<"\\", "Legacy", "\\", "Greeter", "::", "hello", "(", ")", ";">> >>

\* use Lost\Greeter;  Greeter::hello();
TextStaticLost ==
  << <<"use", "Lost", "\\", "Greeter", ";">>,
     <<"Greeter", "::", "hello", "(", ")", ";">> >>

\* Missing::helper();
TextStaticHelper ==
  << <<"Missing", "::", "helper", "(", ")", ";">> >>

\* class Greeter { function hello() {} }  Greeter::hello();
TextLocalMember ==
  << <<"class", "Greeter", "{", "function", "hello", "(", ")", "{", "}", "}">>,
     <<"Greeter", "::", "hello", "(", ")", ";">> >>

\* function helper() {}  Missing::helper();
TextLocalSameName ==
  << <<"function", "helper", "(", ")", "{", "}">>,
     <<"Missing", "::", "helper", "(", ")", ";">> >>

\* class Greeter { const LIMIT = 1; }  function hello() {}  Greeter::hello();
TextLocalNoMember ==
  << <<"class", "Greeter", "{", "const", "LIMIT", "=", "1", ";", "}">>,
     <<"function", "hello", "(", ")", "{", "}">>,
     <<"Greeter", "::", "hello", "(", ")", ";">> >>

\* class Greeter { }  Greeter::bye();
TextLocalNothing ==
  << <<"class", "Greeter", "{", "}">>,
     <<"Greeter", "::", "bye", "(", ")", ";">> >>

\* The documents in which a static reference is resolved locally.
LocalStaticTexts == {TextLocalMember, TextLocalSameName, TextLocalNoMember, TextLocalNothing}

\* function first(int $x): int {}  function second(string $y) {}
TextTwoFunctions ==
  << <<"function", "first", "(", "int", "$", "x", ")", ":", "int", "{", "}">>,
     <<"function", "second", "(", "string", "$", "y", ")", "{", "}">> >>

\* namespace App\Http; use App\Models\User; use Foo\Bar as Baz;
\* class Admin extends User implements Baz {}
TextAdmin ==
  << <<"namespace", "App", "\\", "Http", ";">>,
     <<"use", "App", "\\", "Models", "\\", "User", ";">>,
     <<"use", "Foo", "\\", "Bar", "as", "Baz", ";">>,
     <<"class", "Admin", "extends", "User", "implements", "Baz", "{", "}">> >>

\* namespace App; use Exception; use Countable as Sized;
\* class Failure extends Exception implements Sized {}
TextFailure ==
  << <<"namespace", "App", ";">>,
     <<"use", "Exception", ";">>,
     <<"use", "Countable", "as", "Sized", ";">>,
     <<"class", "Failure", "extends", "Exception", "implements", "Sized", "{", "}">> >>

\* namespace App; class Plain extends Base {}
TextPlain ==
  << <<"namespace", "App", ";">>,
     <<"class", "Plain", "extends", "Base", "{", "}">> >>

\* namespace App; class Oops extends \Exception implements \Countable {}
TextRootedGlobal ==
  << <<"namespace", "App", ";">>,
     <<"class", "Oops", "extends", "\\", "Exception", "implements", "\\", "Countable", "{", "}">> >>

\* namespace App; use Other\Exception; class Clash extends \Exception {}
TextRootedAliased ==
  << <<"namespace", "App", ";">>,
     <<"use", "Other", "\\", "Exception", ";">>,
     <<"class", "Clash", "extends", "\\", "Exception", "{", "}">> >>

\* namespace App; class Repo extends \Lib\Base {}
TextRootedQualified ==
  << <<"namespace", "App", ";">>,
     <<"class", "Repo", "extends", "\\", "Lib", "\\", "Base", "{", "}">> >>

\* The texts of the calls of SpecRooted.
RootedTexts == {TextRootedGlobal, TextRootedAliased, TextRootedQualified}

\* The texts of the calls of SpecSupertypes.
SupertypeTexts == {TextAdmin, TextFailure, TextPlain}

\* The texts of the calls of SpecExtraction.
ExtractionTexts == {TextAppGreeterFoo, TextAppHelpers, TextBroken, TextFunctionF, TextClassF}

\* The texts of the calls of SpecSignatures.
SignatureTexts == {TextTyped, TextDocblock, TextTwoFunctions, TextAppGreeterFoo}

\* The texts of the calls of SpecDocblock.
DocblockTexts == {TextRepeatedTags, TextRepeatedParam, TextDocblock, TextTyped}

\* The texts of the calls of SpecInference.
InferenceTexts == {TextVarTag, TextParamTag, TextCallAssigned, TextAssigned}

\* The texts of the calls of SpecFallback: the indexed files, and the documents
\* that hold a static reference.
FallbackTexts == {TextAppGreeterFoo, TextLegacyGreeter, TextAppHelpers}

StaticTexts ==
  {TextStaticAliased, TextStaticShort, TextStaticQualified, TextStaticLost, TextStaticHelper}

\* The texts of the calls of SpecEnclosing.
EnclosingTexts ==
  {TextThisInClass, TextThisAfterClass, TextThisTwoClasses, TextThisBeforeClass, TextThisConstant}

\* The texts of the route files.
RouteTexts == {TextRoutes, TextRouteGroup, TextNoSymbols}

AllTexts ==
  Texts \cup RouteTexts \cup ExtractionTexts \cup SignatureTexts \cup SupertypeTexts \cup DocblockTexts \cup InferenceTexts
    \cup EnclosingTexts \cup FallbackTexts \cup RootedTexts

LanguageIds == {"php", "plaintext"}

MaxRouteVersion == 4

-----------------------------------------------------------------------------
(* Text helpers *)

\* The element of a set of one element. The({e : x \in {v}}) is e with x standing
\* for the value of v.
The(S) == CHOOSE x \in S : TRUE

RECURSIVE FlattenSeq(_)
FlattenSeq(ss) == IF ss = <<>> THEN <<>> ELSE Head(ss) \o FlattenSeq(Tail(ss))

\* document.getText()
GetText(lines) == FlattenSeq(lines)

Tok(text, i) == IF i \in 1..Len(text) THEN text[i] ELSE ""

NonWord == {"", "{", "}", "(", ")", ";", "=", "\\", "::", "->", "$", "&", ",", "'", "\"", "1",
            ":", "...", "/**", "*/", "@param", "@return", "@var", "[", "]"}

\* [A-Za-z_\x80-\xff][\w\x80-\xff]*
IsWord(t) == t \notin NonWord

\* text.indexOf(tok, from); 0 stands for -1
IndexOfTok(text, tok, from) ==
  LET hits == {i \in from..Len(text) : text[i] = tok}
  IN IF hits = {} THEN 0 ELSE CHOOSE i \in hits : \A j \in hits : i <= j

\* offset of the first token of line n
LineStart(lines, n) == Len(FlattenSeq(SubSeq(lines, 1, n - 1))) + 1

ClassKeywords == {"class", "interface", "trait", "enum"}

\* [\\A-Za-z_\x80-\xff][\\\w\x80-\xff]* tried at offset i: the offset of the last token
\* of the run of words and backslashes that starts at i, i - 1 when there is none.
NameRunEnd(text, i) ==
  LET ends == {j \in i..Len(text) : \A x \in i..j : IsWord(text[x]) \/ text[x] = "\\"}
  IN IF ends = {} THEN i - 1 ELSE CHOOSE j \in ends : \A k \in ends : k <= j

NoMatch == [ok |-> FALSE, index |-> 0, nameIndex |-> 0, end |-> 0, kw |-> ""]

\* One attempt of a declaration pattern at offset i.
MatchAt(re, text, i) ==
  CASE re = "classDecl" ->
         IF Tok(text, i) \in {"abstract", "final"} /\ Tok(text, i + 1) \in ClassKeywords
            /\ IsWord(Tok(text, i + 2))
         THEN [ok |-> TRUE, index |-> i, nameIndex |-> i + 2, end |-> i + 3, kw |-> Tok(text, i + 1)]
         ELSE IF Tok(text, i) \in ClassKeywords /\ IsWord(Tok(text, i + 1))
         THEN [ok |-> TRUE, index |-> i, nameIndex |-> i + 1, end |-> i + 2, kw |-> Tok(text, i)]
         ELSE NoMatch
    [] re = "class" ->
         IF Tok(text, i) \in ClassKeywords /\ IsWord(Tok(text, i + 1))
         THEN [ok |-> TRUE, index |-> i, nameIndex |-> i + 1, end |-> i + 2, kw |-> Tok(text, i)]
         ELSE NoMatch
    [] re = "function" ->
         LET j == IF Tok(text, i + 1) = "&" THEN i + 2 ELSE i + 1
         IN IF Tok(text, i) = "function" /\ IsWord(Tok(text, j)) /\ Tok(text, j + 1) = "("
            THEN [ok |-> TRUE, index |-> i, nameIndex |-> j, end |-> j + 2, kw |-> "function"]
            ELSE NoMatch
    [] re = "prop" ->
         LET j == IF Tok(text, i + 1) = "static" THEN i + 2 ELSE i + 1
         IN IF Tok(text, i) \in {"public", "protected", "private", "var"}
               /\ Tok(text, j) = "$" /\ IsWord(Tok(text, j + 1))
            THEN [ok |-> TRUE, index |-> i, nameIndex |-> j + 1, end |-> j + 2, kw |-> "prop"]
            ELSE NoMatch
    [] re = "const" ->
         IF Tok(text, i) = "const" /\ IsWord(Tok(text, i + 1))
         THEN [ok |-> TRUE, index |-> i, nameIndex |-> i + 1, end |-> i + 2, kw |-> "const"]
         ELSE NoMatch
    [] re = "globalConst" ->
         IF Tok(text, i) = "const" /\ IsWord(Tok(text, i + 1)) /\ Tok(text, i + 2) = "="
         THEN [ok |-> TRUE, index |-> i, nameIndex |-> i + 1, end |-> i + 3, kw |-> "const"]
         ELSE NoMatch
    [] re = "define" ->
         IF Tok(text, i) = "define" /\ Tok(text, i + 1) = "("
            /\ Tok(text, i + 2) \in {"'", "\""} /\ IsWord(Tok(text, i + 3))
            /\ Tok(text, i + 4) \in {"'", "\""}
         THEN [ok |-> TRUE, index |-> i, nameIndex |-> i + 3, end |-> i + 5, kw |-> "define"]
         ELSE NoMatch
    [] re = "staticCall" ->
         LET j == NameRunEnd(text, i)
         IN IF j >= i /\ Tok(text, j + 1) = "::" /\ IsWord(Tok(text, j + 2))
               /\ Tok(text, j + 3) = "("
            THEN [ok |-> TRUE, index |-> i, nameIndex |-> j + 2, end |-> j + 4, kw |-> "static"]
            ELSE NoMatch
    [] re = "methodCall" ->
         IF Tok(text, i) = "->" /\ IsWord(Tok(text, i + 1)) /\ Tok(text, i + 2) = "("
         THEN [ok |-> TRUE, index |-> i, nameIndex |-> i + 1, end |-> i + 3, kw |-> "method"]
         ELSE NoMatch
    [] re = "fnCall" ->
         IF IsWord(Tok(text, i)) /\ Tok(text, i + 1) = "("
         THEN [ok |-> TRUE, index |-> i, nameIndex |-> i, end |-> i + 2, kw |-> "fn"]
         ELSE NoMatch
    [] re = "routeName" ->
         IF /\ Tok(text, i) = "->" /\ Tok(text, i + 1) = "name" /\ Tok(text, i + 2) = "("
            /\ Tok(text, i + 3) \in {"'", "\""} /\ Tok(text, i + 4) \notin {"", "'", "\""}
            /\ Tok(text, i + 5) = Tok(text, i + 3) /\ Tok(text, i + 6) = ")"
         THEN [ok |-> TRUE, index |-> i, nameIndex |-> i + 4, end |-> i + 7, kw |-> "name"]
         ELSE NoMatch
    [] re = "routeGroupName" ->
         IF /\ Tok(text, i) = "Route" /\ Tok(text, i + 1) = "::" /\ Tok(text, i + 2) = "name"
            /\ Tok(text, i + 3) = "("
            /\ Tok(text, i + 4) \in {"'", "\""} /\ Tok(text, i + 5) \notin {"", "'", "\""}
            /\ Tok(text, i + 6) = Tok(text, i + 4) /\ Tok(text, i + 7) = ")"
         THEN [ok |-> TRUE, index |-> i, nameIndex |-> i + 5, end |-> i + 8, kw |-> "name"]
         ELSE NoMatch

\* All matches of a global regular expression, left to right, not overlapping
\* (the while ((m = re.exec(text))) loops).
ExecAll(re, text, i) ==
  LET from[k \in 1..(Len(text) + 1)] ==
        IF k > Len(text) THEN <<>>
        ELSE The({ IF m.ok THEN <<m>> \o from[m.end] ELSE from[k + 1] :
                     m \in {MatchAt(re, text, k)} })
  IN from[i]

\* The first match (re.exec on a fresh regular expression), or NoMatch.
ExecFirst(re, text) ==
  The({ IF ms = <<>> THEN NoMatch ELSE ms[1] : ms \in {ExecAll(re, text, 1)} })

\* The offset of the brace that closes the one at startIndex; 0 stands for -1.
findMatchingBrace(text, startIndex) ==
  LET scan[i \in 1..(Len(text) + 1), depth \in 0..Len(text)] ==
        IF i > Len(text) THEN 0
        ELSE IF text[i] = "{" THEN scan[i + 1, depth + 1]
        ELSE IF text[i] = "}"
        THEN (IF depth - 1 = 0 THEN i ELSE scan[i + 1, depth - 1])
        ELSE scan[i + 1, depth]
  IN scan[startIndex, 0]

\* /^\s*namespace\s+([^;{]+)\s*[;{]/m : the tokens between the first "namespace"
\* that opens a line and the next ";" or "{".
getPhpNamespace(lines) ==
  LET text == GetText(lines)
      starts == {n \in 1..Len(lines) :
                   /\ lines[n] # <<>>
                   /\ lines[n][1] = "namespace"
                   /\ LET s == LineStart(lines, n)
                          ends == {e \in (s + 2)..Len(text) :
                                     /\ text[e] \in {";", "{"}
                                     /\ \A x \in (s + 1)..(e - 1) : text[x] \notin {";", "{"}}
                      IN ends # {}}
  IN IF starts = {} THEN <<>>
     ELSE LET n == CHOOSE x \in starts : \A y \in starts : x <= y
              s == LineStart(lines, n)
              e == CHOOSE x \in (s + 2)..Len(text) :
                     /\ text[x] \in {";", "{"}
                     /\ \A y \in (s + 1)..(x - 1) : text[y] \notin {";", "{"}
          IN SubSeq(text, s + 1, e - 1)

-----------------------------------------------------------------------------
(* Symbol extraction *)

Location(uri, offset) == [uri |-> uri, pos |-> offset]

NoClassInfo ==
  [fqn |-> <<>>, shortName |-> "", kind |-> "", uri |-> "", containerName |-> <<>>,
   extends |-> <<>>, implements |-> <<>>]

Container(name) == [NoClassInfo EXCEPT !.containerName = name]

Symbol(key, loc, kind, signature, classInfo) ==
  [key |-> key, location |-> loc, kind |-> kind, signature |-> signature, classInfo |-> classInfo]

\* head.lastIndexOf(tok, upto); 0 stands for -1
LastIndexOfTok(text, tok, upto) ==
  LET hits == {i \in 1..upto : Tok(text, i) = tok}
  IN IF hits = {} THEN 0 ELSE CHOOSE i \in hits : \A j \in hits : j <= i

\* findPhpDocblockBeforeOffset(text, offset): the last doc-comment of the text
\* before offset, when nothing but white space lies between its end and offset;
\* <<>> stands for ''.
findPhpDocblockBeforeOffset(text, offset) ==
  The({ The({ IF end = 0 \/ start = 0 \/ end # offset - 1 THEN <<>>
              ELSE SubSeq(text, start, end) :
              start \in {IF end = 0 THEN 0 ELSE LastIndexOfTok(text, "/**", end)} }) :
        end \in {LastIndexOfTok(text, "*/", offset - 1)} })

\* parsePhpDocblock(docblock): the type of each @param (the last one given for a
\* name) and the type of the first @return; in the texts of the model each
\* annotation stands on a line of its own.
parsePhpDocblock(docblock) ==
  The({ The({ [params |-> [name \in {docblock[i + 3] : i \in paramAt} |->
                            docblock[(CHOOSE i \in paramAt :
                                        /\ docblock[i + 3] = name
                                        /\ \A j \in paramAt : docblock[j + 3] = name => j <= i) + 1]],
               returns |-> IF returnAt = {} THEN ""
                           ELSE docblock[(CHOOSE i \in returnAt : \A j \in returnAt : i <= j) + 1]] :
              returnAt \in {{i \in 1..Len(docblock) :
                               docblock[i] = "@return" /\ Tok(docblock, i + 1) # ""}} }) :
        paramAt \in {{i \in 1..Len(docblock) :
                        /\ docblock[i] = "@param" /\ Tok(docblock, i + 1) \notin {"", "$"}
                        /\ Tok(docblock, i + 2) = "$" /\ IsWord(Tok(docblock, i + 3))}} })

\* splitPhpParameters(paramList): the pieces between the commas, without the empty
\* ones (the parameter lists of the texts of the model hold no brackets, so that
\* every comma is at depth 0).
splitPhpParameters(paramList) ==
  LET split[i \in 1..(Len(paramList) + 1)] ==
        IF i > Len(paramList) THEN <<>>
        ELSE The({ (IF e = i THEN <<>> ELSE <<SubSeq(paramList, i, e - 1)>>)
                   \o (IF e >= Len(paramList) THEN <<>> ELSE split[e + 1]) :
                   e \in {IF IndexOfTok(paramList, ",", i) = 0 THEN Len(paramList) + 1
                          ELSE IndexOfTok(paramList, ",", i)} })
  IN split[1]

\* parsePhpParameter(paramText, docParams): <<>> stands for null.
parsePhpParameter(paramText, docParams) ==
  The({ IF at = {} THEN <<>>
        ELSE The({ The({ <<[name |-> paramText[k + 1],
                            type |-> IF cleanBefore # <<>> THEN cleanBefore[1]
                                     ELSE IF paramText[k + 1] \in DOMAIN docParams
                                     THEN docParams[paramText[k + 1]]
                                     ELSE "mixed",
                            variadic |-> \E n \in 1..(k - 1) : paramText[n] = "..."]>> :
                         cleanBefore \in {SelectSeq(SubSeq(paramText, 1, k - 1),
                                                    LAMBDA t : t \notin {"...", "&"})} }) :
                   k \in {CHOOSE i \in at : \A j \in at : i <= j} }) :
        at \in {{i \in 1..Len(paramText) :
                   paramText[i] = "$" /\ IsWord(Tok(paramText, i + 1))}} })

\* `${p.type} ${p.variadic ? '...' : ''}${p.name}`
FormatParameter(param) ==
  <<param.type>> \o (IF param.variadic THEN <<"...">> ELSE <<>>) \o <<"$", param.name>>

\* formattedParams.join(', ')
RECURSIVE JoinParameters(_)
JoinParameters(params) ==
  IF params = <<>> THEN <<>>
  ELSE IF Len(params) = 1 THEN FormatParameter(params[1])
  ELSE FormatParameter(params[1]) \o <<",">> \o JoinParameters(Tail(params))

\* The label of the signature parsed around nameIndex, `name(params): returnType`,
\* of the first function declaration of the window's head (the window reaches 800
\* characters back and 200 forward, more than any text of the model), with the
\* doc-comment found before nameIndex; <<>> stands for null.
extractPhpFunctionSignatureNearOffset(text, nameIndex) ==
  The({ IF decls = <<>> THEN <<>>
        ELSE The({ The({ <<text[decls[1].nameIndex], "(">>
                         \o JoinParameters(
                              FlattenSeq([n \in 1..Len(parts) |->
                                            parsePhpParameter(parts[n], doc.params)]))
                         \o <<")", ":",
                              IF Tok(text, close + 1) = ":" /\ IsWord(Tok(text, close + 2))
                              THEN text[close + 2]
                              ELSE IF doc.returns # "" THEN doc.returns ELSE "mixed">> :
                         parts \in {splitPhpParameters(SubSeq(text, decls[1].end, close - 1))} }) :
                   close \in {IndexOfTok(text, ")", decls[1].end)},
                   doc \in {parsePhpDocblock(findPhpDocblockBeforeOffset(text, nameIndex))} }) :
        decls \in {SelectSeq(ExecAll("function", text, 1),
                             LAMBDA m : IndexOfTok(text, ")", m.end) # 0)} })

SymbolKindOf(classKeyword) ==
  IF classKeyword = "interface" THEN "Interface"
  ELSE IF classKeyword = "enum" THEN "Enum" ELSE "Class"

\* A class declaration whose body is brace matched: [ok, start, end].
ClassRangeOf(text, match) ==
  The({ The({ [ok |-> braceStart # 0 /\ braceEnd # 0, start |-> braceStart, end |-> braceEnd,
               name |-> text[match.nameIndex]] :
              braceEnd \in {IF braceStart = 0 THEN 0 ELSE findMatchingBrace(text, braceStart)} }) :
        braceStart \in {IndexOfTok(text, "{", match.index)} })

\* String(classNameOrFqn).replace(/^\\+/, '')
RECURSIVE StripLeadingBackslashes(_)
StripLeadingBackslashes(name) ==
  IF name # <<>> /\ Head(name) = "\\" THEN StripLeadingBackslashes(Tail(name)) ELSE name

\* clause.split(','): the parts of a token sequence between its commas.
RECURSIVE SplitOnComma(_)
SplitOnComma(toks) ==
  LET commas == {i \in 1..Len(toks) : toks[i] = ","}
  IN IF commas = {} THEN <<toks>>
     ELSE LET c == CHOOSE i \in commas : \A k \in commas : i <= k
          IN <<SubSeq(toks, 1, c - 1)>> \o SplitOnComma(SubSeq(toks, c + 1, Len(toks)))

\* One part of a use clause: the alias and the name it stands for, or nothing
\* when either is empty (lines 1536-1539).
UseAliasOfPart(part) ==
  LET n == Len(part)
      asMatch == n >= 3 /\ part[n - 1] \in {"as", "AS", "As"} /\ IsWord(part[n])
      fqn == StripLeadingBackslashes(IF asMatch THEN SubSeq(part, 1, n - 2) ELSE part)
      alias == IF asMatch THEN part[n] ELSE IF fqn = <<>> THEN "" ELSE fqn[Len(fqn)]
  IN IF alias # "" /\ alias # "\\" /\ fqn # <<>> THEN <<[alias |-> alias, fqn |-> fqn]>> ELSE <<>>

\* parsePhpUseAliases: the alias table as the sequence of its assignments, a later
\* assignment of an alias replacing an earlier one.  /^\s*use\s+([^;]+);/gm finds
\* a "use" that opens a line with the tokens up to the next ";"; the search goes
\* on after that ";".
parsePhpUseAliases(lines) ==
  LET text == GetText(lines)
      LineOpens == {LineStart(lines, n) : n \in {m \in 1..Len(lines) : lines[m] # <<>>}}
      scan[i \in 1..(Len(text) + 1)] ==
        IF i > Len(text) THEN <<>>
        ELSE IF i \in LineOpens /\ text[i] = "use" /\ IndexOfTok(text, ";", i + 1) > i + 1
             THEN The({ The({ The({ (IF clause[1] \in {"function", "const"} THEN <<>>
                                     ELSE FlattenSeq([j \in 1..Len(parts) |->
                                                        UseAliasOfPart(parts[j])]))
                                    \o scan[semi + 1] :
                                    parts \in {SelectSeq(SplitOnComma(clause),
                                                         LAMBDA q : q # <<>>)} }) :
                              clause \in {SubSeq(text, i + 1, semi - 1)} }) :
                        semi \in {IndexOfTok(text, ";", i + 1)} })
             ELSE scan[i + 1]
  IN scan[1]

\* useAliases[name]: the name last assigned to the alias, <<>> when there is none.
AliasGet(useAliases, name) ==
  LET at == {i \in 1..Len(useAliases) : useAliases[i].alias = name}
  IN IF at = {} THEN <<>> ELSE useAliases[CHOOSE i \in at : \A k \in at : k <= i].fqn

\* [\\A-Za-z_\x80-\xff][\\\w\x80-\xff]* tried at offset i of a header, where two
\* words that follow each other are separated by white space: the offset of the
\* last token of the name, i - 1 when there is none.
TypeNameEnd(text, i) ==
  LET ends == {j \in i..Len(text) :
                 /\ \A x \in i..j : IsWord(text[x]) \/ text[x] = "\\"
                 /\ \A x \in i..(j - 1) : ~(IsWord(text[x]) /\ IsWord(text[x + 1]))}
  IN IF ends = {} THEN i - 1 ELSE CHOOSE j \in ends : \A k \in ends : k <= j

\* parsePhpClassExtendsImplements: the name after the first "extends" that has
\* one, and the parts between commas of what follows the first "implements" up
\* to the end of the header.
parsePhpClassExtendsImplements(header) ==
  LET extendsAt == {i \in 1..Len(header) : header[i] = "extends" /\ TypeNameEnd(header, i + 1) > i}
      implementsAt == {i \in 1..(Len(header) - 1) : header[i] = "implements"}
      e == CHOOSE i \in extendsAt : \A k \in extendsAt : i <= k
      m == CHOOSE i \in implementsAt : \A k \in implementsAt : i <= k
  IN [extends |-> IF extendsAt = {} THEN <<>>
                  ELSE <<SubSeq(header, e + 1, TypeNameEnd(header, e + 1))>>,
      implements |-> IF implementsAt = {} THEN <<>>
                     ELSE SelectSeq(SplitOnComma(SubSeq(header, m + 1, Len(header))),
                                    LAMBDA q : q # <<>>)]

\* resolvePhpTypeTokenToFqn (lines 1552-1561); a token is a sequence of tokens of
\* the text, and only a single word can be an alias.
resolvePhpTypeTokenToFqn(token, namespace, useAliases) ==
  LET cleaned == StripLeadingBackslashes(IF token # <<>> /\ token[1] = "?" THEN Tail(token) ELSE token)
      aliased == IF Len(cleaned) = 1 /\ AliasGet(useAliases, cleaned[1]) # <<>>
                 THEN AliasGet(useAliases, cleaned[1]) ELSE cleaned
  IN IF token = <<>> THEN <<>>
     ELSE IF \E x \in 1..Len(cleaned) : cleaned[x] = "\\" THEN cleaned
     ELSE IF \E x \in 1..Len(aliased) : aliased[x] = "\\" THEN StripLeadingBackslashes(aliased)
     ELSE IF namespace # <<>> THEN namespace \o <<"\\">> \o aliased
     ELSE aliased

\* The symbols of one type declaration and of the members found in classBody, the
\* text of the declaration from its opening brace, which starts off tokens into text
\* (source lines 1374-1434).
ClassMemberSymbols(uri, text, namespace, useAliases, match, classBody, off) ==
  LET className == text[match.nameIndex]
      classLoc == Location(uri, match.nameIndex)
      classFqn == IF namespace # <<>> THEN namespace \o <<"\\", className>> ELSE <<className>>
      kind == SymbolKindOf(match.kw)
      header == SubSeq(text, match.index, off)
      classExt == parsePhpClassExtendsImplements(header)
      extendsFqns == [j \in 1..Len(classExt.extends) |->
                        resolvePhpTypeTokenToFqn(classExt.extends[j], namespace, useAliases)]
      implementsFqns == [j \in 1..Len(classExt.implements) |->
                           resolvePhpTypeTokenToFqn(classExt.implements[j], namespace, useAliases)]
      classInfo == [fqn |-> classFqn, shortName |-> className, kind |-> kind, uri |-> uri,
                    containerName |-> <<>>, extends |-> extendsFqns,
                    implements |-> implementsFqns]
      MethodSyms(methodName, methodLoc, signature) ==
        <<Symbol(<<className, "::", methodName>>, methodLoc, "Method", signature,
                 Container(<<className>>))>>
        \o (IF namespace # <<>>
            THEN <<Symbol(classFqn \o <<"::", methodName>>, methodLoc, "Method", signature,
                          Container(classFqn))>>
            ELSE <<>>)
      PropSyms(propName, propLoc) ==
        <<Symbol(<<className, "->", "$", propName>>, propLoc, "Property", <<>>,
                 Container(<<className>>)),
          Symbol(<<className, "->", propName>>, propLoc, "Property", <<>>,
                 Container(<<className>>))>>
        \o (IF namespace # <<>>
            THEN <<Symbol(classFqn \o <<"->", "$", propName>>, propLoc, "Property", <<>>,
                          Container(classFqn)),
                   Symbol(classFqn \o <<"->", propName>>, propLoc, "Property", <<>>,
                          Container(classFqn))>>
            ELSE <<>>)
      ConstSyms(constName, constLoc) ==
        <<Symbol(<<className, "::", constName>>, constLoc, "Constant", <<>>,
                 Container(<<className>>))>>
        \o (IF namespace # <<>>
            THEN <<Symbol(classFqn \o <<"::", constName>>, constLoc, "Constant", <<>>,
                          Container(classFqn))>>
            ELSE <<>>)
  IN The({ <<Symbol(<<className>>, classLoc, kind, <<>>, classInfo)>>
           \o (IF namespace # <<>> THEN <<Symbol(classFqn, classLoc, kind, <<>>, classInfo)>>
               ELSE <<>>)
           \o FlattenSeq([j \in 1..Len(methods) |->
                 MethodSyms(classBody[methods[j].nameIndex],
                            Location(uri, off + methods[j].nameIndex),
                            extractPhpFunctionSignatureNearOffset(text, off + methods[j].nameIndex))])
           \o FlattenSeq([j \in 1..Len(props) |->
                 PropSyms(classBody[props[j].nameIndex], Location(uri, off + props[j].nameIndex))])
           \o FlattenSeq([j \in 1..Len(consts) |->
                 ConstSyms(classBody[consts[j].nameIndex],
                           Location(uri, off + consts[j].nameIndex))]) :
           methods \in {ExecAll("function", classBody, 1)},
           props \in {ExecAll("prop", classBody, 1)},
           consts \in {ExecAll("const", classBody, 1)} })

\* A type declaration without a matched body contributes nothing (line 1378).
ClassSymbols(uri, text, namespace, useAliases, match) ==
  The({ IF ~range.ok THEN <<>>
        ELSE The({ ClassMemberSymbols(uri, text, namespace, useAliases, match, classBody,
                                      range.start - 1) :
                   classBody \in {SubSeq(text, range.start, range.end)} }) :
        range \in {ClassRangeOf(text, match)} })

\* classRanges.some((r) => match.index >= r.start && match.index <= r.end)
InClassRanges(classRanges, index) ==
  \E j \in 1..Len(classRanges) :
    classRanges[j].ok /\ index >= classRanges[j].start /\ index <= classRanges[j].end

\* The symbols of a free function, a global constant or a define() (lines 1436-1465).
TopLevelSymbolsShortOnly(uri, text, namespace, match, kind, signature) ==
  <<Symbol(<<text[match.nameIndex]>>, Location(uri, match.nameIndex), kind, signature,
           NoClassInfo)>>
TopLevelSymbols(uri, text, namespace, match, kind, signature) ==
  LET name == text[match.nameIndex]
      loc == Location(uri, match.nameIndex)
  IN <<Symbol(<<name>>, loc, kind, signature, NoClassInfo)>>
     \o (IF namespace # <<>>
         THEN <<Symbol(namespace \o <<"\\", name>>, loc, kind, signature, NoClassInfo)>>
         ELSE <<>>)

\* One of the three loops over declarations outside classes: the matches of re,
\* without those inside a class range when skipInClasses, as symbols of kind.
TopLevelLoop(uri, text, namespace, classRanges, re, skipInClasses, kind) ==
  The({ FlattenSeq([j \in 1..Len(matches) |->
                      TopLevelSymbols(uri, text, namespace, matches[j], kind,
                        IF kind = "Function"
                        THEN extractPhpFunctionSignatureNearOffset(text, matches[j].nameIndex)
                        ELSE <<>>)]) :
        matches \in {SelectSeq(ExecAll(re, text, 1),
                       LAMBDA m : ~(skipInClasses /\ InClassRanges(classRanges, m.index)))} })

\* The loops of extractPhpSymbolsFromDocument over a text whose type declarations
\* are classMatches.
TextSymbols(uri, text, namespace, useAliases, classMatches) ==
  The({ FlattenSeq([j \in 1..Len(classMatches) |->
                      ClassSymbols(uri, text, namespace, useAliases, classMatches[j])])
        \o TopLevelLoop(uri, text, namespace, classRanges, "function", TRUE, "Function")
        \o TopLevelLoop(uri, text, namespace, classRanges, "globalConst", TRUE, "Constant")
        \o TopLevelLoop(uri, text, namespace, classRanges, "define", FALSE, "Constant") :
        classRanges \in {[j \in 1..Len(classMatches) |->
                           ClassRangeOf(text, classMatches[j])]} })

extractPhpSymbolsFromDocument(document) ==
  The({ The({ TextSymbols(document.uri, text, namespace, useAliases, classMatches) :
              classMatches \in {ExecAll("classDecl", text, 1)} }) :
        text \in {GetText(document.text)},
        namespace \in {getPhpNamespace(document.text)},
        useAliases \in {parsePhpUseAliases(document.text)} })

Document(uri, text, languageId) == [uri |-> uri, text |-> text, languageId |-> languageId]

\* extractPhpSymbolsFromDocument tabulated over the documents of the model.
SymbolsTable ==
  [uri \in Files |-> [text \in AllTexts |->
     extractPhpSymbolsFromDocument(Document(uri, text, "php"))]]

SymbolsOfDocument(document) == SymbolsTable[document.uri][document.text]

\* The keys a text contributes when indexed as a PHP document.
KeysOfText(text) ==
  LET symbols == SymbolsTable["A"][text]
  IN {symbols[i].key : i \in 1..Len(symbols)}

\* The fully-qualified names of the classes a text declares.
ClassFqnsOfText(text) ==
  LET symbols == SymbolsTable["A"][text]
  IN {symbols[i].classInfo.fqn : i \in {j \in 1..Len(symbols) : symbols[j].classInfo.fqn # <<>>}}

-----------------------------------------------------------------------------
(* The workspace symbol index: deletion and update of one file *)

EmptyMap == [k \in {} |-> <<>>]

MapGet(map, k) == IF k \in DOMAIN map THEN map[k] ELSE <<>>

MapSet(map, k, v) == [x \in (DOMAIN map) \cup {k} |-> IF x = k THEN v ELSE map[x]]

MapDelete(map, k) == [x \in (DOMAIN map) \ {k} |-> map[x]]

\* docVarRe tried at offset i: /\/\*\*[\s\S]*?\*\/\s*\$(name)/, a doc-comment up to
\* the first close that a variable follows.
DocVarMatchAt(text, i) ==
  LET ends == {e \in (i + 1)..Len(text) :
                 text[e] = "*/" /\ Tok(text, e + 1) = "$" /\ IsWord(Tok(text, e + 2))}
  IN IF text[i] # "/**" \/ ends = {} THEN NoMatch
     ELSE The({ [ok |-> TRUE, index |-> i, nameIndex |-> e + 2, end |-> e + 3, kw |-> ""] :
                e \in {CHOOSE x \in ends : \A y \in ends : x <= y} })

\* assignRe tried at offset i: /(\$name)\s*=\s*([^;]+);/
AssignMatchAt(text, i) ==
  The({ IF /\ text[i] = "$" /\ IsWord(Tok(text, i + 1)) /\ Tok(text, i + 2) = "="
           /\ semi > i + 3
        THEN [ok |-> TRUE, index |-> i, nameIndex |-> i + 1, end |-> semi + 1, kw |-> ""]
        ELSE NoMatch :
        semi \in {IndexOfTok(text, ";", i + 3)} })

\* while ((match = docVarRe.exec(text))): the matches, left to right.
DocVarMatches(text) ==
  LET from[k \in 1..(Len(text) + 1)] ==
        IF k > Len(text) THEN <<>>
        ELSE The({ IF m.ok THEN <<m>> \o from[m.end] ELSE from[k + 1] :
                     m \in {DocVarMatchAt(text, k)} })
  IN from[1]

\* while ((match = assignRe.exec(text))): the matches, left to right.
AssignMatches(text) ==
  LET from[k \in 1..(Len(text) + 1)] ==
        IF k > Len(text) THEN <<>>
        ELSE The({ IF m.ok THEN <<m>> \o from[m.end] ELSE from[k + 1] :
                     m \in {AssignMatchAt(text, k)} })
  IN from[1]

\* label.match(/\)\s*:\s*([^\s]+)\s*$/): the return type a label ends with.
LabelReturnType(label) ==
  IF Len(label) >= 3 /\ label[Len(label) - 2] = ")" /\ label[Len(label) - 1] = ":"
  THEN <<label[Len(label)]>> ELSE <<>>

\* The loop over the keys of a call: the return type of the first signature of
\* the first key that has one, resolved; <<>> if none.
ReturnTypeOfKeys(keys, namespace, useAliases) ==
  LET found == {n \in 1..Len(keys) :
                  /\ MapGet(phpWorkspaceFunctionInfoByKey, keys[n]) # <<>>
                  /\ LabelReturnType(phpWorkspaceFunctionInfoByKey[keys[n]][1].label) # <<>>}
  IN IF found = {} THEN <<>>
     ELSE resolvePhpTypeTokenToFqn(
            LabelReturnType(
              phpWorkspaceFunctionInfoByKey[keys[CHOOSE n \in found : \A q \in found : n <= q]][1].label),
            namespace, useAliases)

\* inferPhpTypeFromExpression(expr, namespace, useAliases, existingVarTypes): the
\* type the shape of an expression gives; <<>> stands for ''.
inferPhpTypeFromExpression(expr, namespace, useAliases, existingVarTypes) ==
  LET last == Tok(expr, Len(expr))
      run == NameRunEnd(expr, 1)
      staticKeys == The({ <<resolvedClass \o <<"::", Tok(expr, run + 2)>>,
                            <<resolvedClass[Len(resolvedClass)], "::", Tok(expr, run + 2)>>>> :
                          resolvedClass \in {resolvePhpTypeTokenToFqn(SubSeq(expr, 1, run),
                                                                      namespace, useAliases)} })
      fnKeys == (IF namespace # <<>> THEN <<namespace \o <<"\\", Tok(expr, 1)>>>> ELSE <<>>)
                  \o <<<<Tok(expr, 1)>>>>
  IN IF expr = <<>> THEN <<>>
     ELSE IF expr[1] = "new" /\ NameRunEnd(expr, 2) >= 2
     THEN resolvePhpTypeTokenToFqn(SubSeq(expr, 2, NameRunEnd(expr, 2)), namespace, useAliases)
     ELSE IF (expr[1] = "[" /\ last = "]") \/ (expr[1] = "array" /\ Tok(expr, 2) = "(")
     THEN <<"array">>
     ELSE IF expr \in {<<"true">>, <<"false">>} THEN <<"bool">>
     ELSE IF expr = <<"null">> THEN <<"null">>
     ELSE IF expr = <<"1">> THEN <<"int">>
     ELSE IF Len(expr) >= 2 /\ expr[1] \in {"'", "\""} /\ last = expr[1] THEN <<"string">>
     ELSE IF expr[1] \in {"function", "fn"} /\ Tok(expr, 2) = "(" THEN <<"Closure">>
     ELSE IF /\ Len(expr) = 2 /\ expr[1] = "$" /\ IsWord(expr[2])
             /\ MapGet(existingVarTypes, expr[2]) # <<>>
     THEN existingVarTypes[expr[2]]
     ELSE IF /\ run >= 1 /\ Tok(expr, run + 1) = "::" /\ IsWord(Tok(expr, run + 2))
             /\ Tok(expr, run + 3) = "("
             /\ ReturnTypeOfKeys(staticKeys, namespace, useAliases) # <<>>
     THEN ReturnTypeOfKeys(staticKeys, namespace, useAliases)
     ELSE IF IsWord(expr[1]) /\ Tok(expr, 2) = "("
     THEN ReturnTypeOfKeys(fnKeys, namespace, useAliases)
     ELSE <<>>

\* The first loop of inferPhpVariableTypes: the type the doc-comment before each
\* annotated variable gives it.
RECURSIVE DocVarLoop(_, _, _, _, _)
DocVarLoop(matches, text, namespace, useAliases, map) ==
  IF matches = <<>> THEN map
  ELSE The({ The({ DocVarLoop(Tail(matches), text, namespace, useAliases,
                              IF type # "" 
                              THEN MapSet(map, name,
                                          resolvePhpTypeTokenToFqn(<<type>>, namespace, useAliases))
                              ELSE map) :
                   type \in {IF name \in DOMAIN doc.params THEN doc.params[name]
                             ELSE doc.returns} }) :
             name \in {text[Head(matches).nameIndex]},
             doc \in {parsePhpDocblock(
                        findPhpDocblockBeforeOffset(text, Head(matches).index + 1))} })

\* The second loop: the type the right-hand side of each assignment gives.
RECURSIVE AssignLoop(_, _, _, _, _)
AssignLoop(matches, text, namespace, useAliases, map) ==
  IF matches = <<>> THEN map
  ELSE The({ AssignLoop(Tail(matches), text, namespace, useAliases,
                        IF inferred # <<>>
                        THEN MapSet(map, text[Head(matches).nameIndex], inferred) ELSE map) :
             inferred \in {inferPhpTypeFromExpression(
                             SubSeq(text, Head(matches).index + 3, Head(matches).end - 2),
                             namespace, useAliases, map)} })

\* inferPhpVariableTypes(document, position): the types of the variables of the
\* text before the offset (the window of 12000 characters holds every text of
\* the model), by name.
inferPhpVariableTypes(lines, offset) ==
  The({ AssignLoop(AssignMatches(text), text, namespace, useAliases,
                   DocVarLoop(DocVarMatches(text), text, namespace, useAliases,
                              EmptyMap)) :
        text \in {SubSeq(GetText(lines), 1, offset)},
        namespace \in {getPhpNamespace(lines)},
        useAliases \in {parsePhpUseAliases(lines)} })

\* locs.filter((loc) => loc.uri.toString() !== uriKey)
FilterLocsKeepAll(locs, uriKey) == locs
FilterLocsDropAll(locs, uriKey) == <<>>
FilterLocs(locs, uriKey) == SelectSeq(locs, LAMBDA loc : loc.uri # uriKey)

\* infoList.filter((info) => info.uriKey !== uriKey)
FilterInfosKeepAll(infoList, uriKey) == infoList
FilterInfos(infoList, uriKey) == SelectSeq(infoList, LAMBDA info : info.uriKey # uriKey)

\* phpWorkspaceIndexVersion++
BumpVersionNot(version) == version
BumpVersion(version) == version + 1

\* The loop of deletePhpIndexForUri over the keys of the file, for the index: under
\* every tracked key the Locations of uriKey are filtered out and a key left with
\* none is dropped.
RetractLocations(index, keys, uriKey) ==
  The({ [k \in {x \in DOMAIN index : x \notin touched \/ FilterLocs(index[x], uriKey) # <<>>} |->
           IF k \in touched THEN FilterLocs(index[k], uriKey) ELSE index[k]] :
        touched \in {{k \in keys : k \in DOMAIN index}} })

\* The same loop for phpWorkspaceSymbolInfo and phpWorkspaceFunctionInfoByKey, which
\* it reaches only for the keys the index holds.
RetractInfos(map, keys, index, uriKey) ==
  The({ [k \in {x \in DOMAIN map : x \notin touched \/ FilterInfos(map[x], uriKey) # <<>>} |->
           IF k \in touched THEN FilterInfos(map[k], uriKey) ELSE map[k]] :
        touched \in {{k \in keys : k \in DOMAIN index /\ k \in DOMAIN map}} })

rebuildPhpClassFqnMapsFirstOnly(classInfoByFqn) ==
  LET shortNames == {classInfoByFqn[i].shortName :
                       i \in {j \in 1..Len(classInfoByFqn) : classInfoByFqn[j].shortName # ""}}
      First(s) == CHOOSE i \in 1..Len(classInfoByFqn) :
                    /\ classInfoByFqn[i].shortName = s
                    /\ \A j \in 1..(i - 1) : classInfoByFqn[j].shortName # s
  IN [s \in shortNames |-> <<classInfoByFqn[First(s)].fqn>>]
rebuildPhpClassFqnMaps(classInfoByFqn) ==
  LET shortNames == {classInfoByFqn[i].shortName :
                       i \in {j \in 1..Len(classInfoByFqn) : classInfoByFqn[j].shortName # ""}}
      FqnsOf(s) == LET idx == SelectSeq([i \in 1..Len(classInfoByFqn) |-> i],
                                        LAMBDA i : classInfoByFqn[i].shortName = s)
                   IN [i \in 1..Len(idx) |-> classInfoByFqn[idx[i]].fqn]
  IN [s \in shortNames |-> FqnsOf(s)]

\* The index as one record, for the operators below.
Workspace ==
  [index |-> phpWorkspaceIndex, keysByUri |-> phpWorkspaceIndexKeysByUri,
   version |-> phpWorkspaceIndexVersion, symbolInfo |-> phpWorkspaceSymbolInfo,
   classInfoByFqn |-> phpWorkspaceClassInfoByFqn,
   classFqnsByShortName |-> phpWorkspaceClassFqnsByShortName,
   functionInfoByKey |-> phpWorkspaceFunctionInfoByKey]

deletePhpIndexForUri(ws, uriKey) ==
  IF uriKey \notin DOMAIN ws.keysByUri THEN ws
  ELSE The({ [index |-> RetractLocations(ws.index, keys, uriKey),
              symbolInfo |-> RetractInfos(ws.symbolInfo, keys, ws.index, uriKey),
              functionInfoByKey |-> RetractInfos(ws.functionInfoByKey, keys, ws.index, uriKey),
              keysByUri |-> MapDelete(ws.keysByUri, uriKey),
              classInfoByFqn |-> classInfo,
              classFqnsByShortName |-> rebuildPhpClassFqnMaps(classInfo),
              version |-> BumpVersion(ws.version)] :
             keys \in {ws.keysByUri[uriKey]},
             classInfo \in {SelectSeq(ws.classInfoByFqn, LAMBDA info : info.uri # uriKey)} })

\* phpWorkspaceClassInfoByFqn.set(classInfo.fqn, classInfo): a Map keeps the
\* position of a key it already holds.
ClassInfoSet(classInfoByFqn, classInfo) ==
  IF \E i \in 1..Len(classInfoByFqn) : classInfoByFqn[i].fqn = classInfo.fqn
  THEN [i \in 1..Len(classInfoByFqn) |->
          IF classInfoByFqn[i].fqn = classInfo.fqn THEN classInfo ELSE classInfoByFqn[i]]
  ELSE Append(classInfoByFqn, classInfo)

\* The body of the loop of updatePhpIndexForDocument for one symbol.
InsertSymbolOverwrites(ws, uriKey, symbol) ==
  IF symbol.key = <<>> THEN ws
  ELSE [ws EXCEPT
          !.index = MapSet(@, symbol.key, <<symbol.location>>),
          !.classInfoByFqn =
             IF symbol.classInfo.fqn # <<>> THEN ClassInfoSet(@, symbol.classInfo) ELSE @]
InsertSymbol(ws, uriKey, symbol) ==
  IF symbol.key = <<>> THEN ws
  ELSE [ws EXCEPT
          !.index = MapSet(@, symbol.key, Append(MapGet(@, symbol.key), symbol.location)),
          !.symbolInfo =
             IF symbol.kind # ""
             THEN MapSet(@, symbol.key,
                    Append(MapGet(@, symbol.key),
                           [uriKey |-> uriKey, kind |-> symbol.kind,
                            containerName |-> symbol.classInfo.containerName]))
             ELSE @,
          !.functionInfoByKey =
             IF symbol.signature # <<>>
             THEN MapSet(@, symbol.key,
                    Append(MapGet(@, symbol.key),
                           [uriKey |-> uriKey, label |-> symbol.signature]))
             ELSE @,
          !.classInfoByFqn =
             IF symbol.classInfo.fqn # <<>> THEN ClassInfoSet(@, symbol.classInfo) ELSE @]

RECURSIVE InsertSymbols(_, _, _, _)
InsertSymbols(ws, uriKey, symbols, i) ==
  IF i > Len(symbols) THEN ws
  ELSE InsertSymbols(InsertSymbol(ws, uriKey, symbols[i]), uriKey, symbols, i + 1)

\* The retraction that opens updatePhpIndexForDocument (line 1333).
RetractBeforeInsertSkipped(ws, uriKey) == ws
RetractBeforeInsert(ws, uriKey) == deletePhpIndexForUri(ws, uriKey)

\* The keys collected while the symbols are inserted (lines 1338-1341).
SymbolKeysFirstOnly(symbols) ==
  IF symbols = <<>> \/ symbols[1].key = <<>> THEN {} ELSE {symbols[1].key}
SymbolKeys(symbols) ==
  {symbols[i].key : i \in {j \in 1..Len(symbols) : symbols[j].key # <<>>}}

updatePhpIndexForDocument(ws, document) ==
  IF document.languageId # "php" THEN ws
  ELSE The({ The({ [ws2 EXCEPT
                      !.keysByUri = IF SymbolKeys(symbols) # {}
                                    THEN MapSet(@, document.uri, SymbolKeys(symbols)) ELSE @,
                      !.classFqnsByShortName = rebuildPhpClassFqnMaps(ws2.classInfoByFqn),
                      !.version = BumpVersion(@)] :
                   ws2 \in {InsertSymbols(RetractBeforeInsert(ws, document.uri),
                                          document.uri, symbols, 1)} }) :
             symbols \in {SymbolsOfDocument(document)} })

\* The index variables take the values of the record ws.
SetWorkspace(ws) ==
  /\ phpWorkspaceIndex' = ws.index
  /\ phpWorkspaceIndexKeysByUri' = ws.keysByUri
  /\ phpWorkspaceIndexVersion' = ws.version
  /\ phpWorkspaceSymbolInfo' = ws.symbolInfo
  /\ phpWorkspaceClassInfoByFqn' = ws.classInfoByFqn
  /\ phpWorkspaceClassFqnsByShortName' = ws.classFqnsByShortName
  /\ phpWorkspaceFunctionInfoByKey' = ws.functionInfoByKey

\* The files that have a Location under key k, and whether file f is one of them.
HasLocationIn(index, k, f) ==
  k \in DOMAIN index /\ \E i \in 1..Len(index[k]) : index[k][i].uri = f

KeysWithLocationIn(index, f) == {k \in DOMAIN index : HasLocationIn(index, k, f)}

-----------------------------------------------------------------------------
(* Members of a class *)

EmptyMembers == [methods |-> {}, properties |-> {}, constants |-> {}]

\* value.split(sep).pop() for a one-token separator: the tokens after its last occurrence
AfterLast(key, sep) ==
  LET hits == {i \in 1..Len(key) : key[i] = sep}
  IN IF hits = {} THEN key
     ELSE SubSeq(key, (CHOOSE i \in hits : \A j \in hits : j <= i) + 1, Len(key))

\* key.includes('->$') and key.split('->$').pop()
ArrowDollarHits(key) == {i \in 1..(Len(key) - 1) : key[i] = "->" /\ key[i + 1] = "$"}

AfterLastArrowDollar(key) ==
  LET hits == ArrowDollarHits(key)
  IN SubSeq(key, (CHOOSE i \in hits : \A j \in hits : j <= i) + 2, Len(key))

StartsWith(key, prefix) ==
  Len(prefix) <= Len(key) /\ SubSeq(key, 1, Len(prefix)) = prefix

\* The tokens of Texts that match /^[A-Z_][A-Z0-9_]*$/
UpperCaseNames == {"MAX", "F", "G"}

IsConstantName(member) == Len(member) = 1 /\ member[1] \in UpperCaseNames

\* The scan of getPhpMembersForClass over the keys of the index (lines 1092-1115).
\* A sorted array without duplicates is a set.
ScanMembers(index, classKey) ==
  LET className == AfterLast(classKey, "\\")
      static == {k \in DOMAIN index :
                   StartsWith(k, classKey \o <<"::">>) \/ StartsWith(k, className \o <<"::">>)}
      staticMembers == {AfterLast(k, "::") : k \in static} \ {<<>>}
      instance == {k \in DOMAIN index :
                     StartsWith(k, classKey \o <<"->">>) \/ StartsWith(k, className \o <<"->">>)}
      PropertyOf(k) ==
        LET member == IF ArrowDollarHits(k) # {} THEN AfterLastArrowDollar(k)
                      ELSE AfterLast(k, "->")
        IN IF member # <<>> /\ Head(member) = "$" THEN Tail(member) ELSE member
  IN [methods |-> {m \in staticMembers : ~IsConstantName(m)},
      constants |-> {m \in staticMembers : IsConstantName(m)},
      properties |-> {PropertyOf(k) : k \in {x \in instance :
                        (IF ArrowDollarHits(x) # {} THEN AfterLastArrowDollar(x)
                         ELSE AfterLast(x, "->")) # <<>>}}]

\* cached && cached.version === phpWorkspaceIndexVersion
CacheHitAnyVersion(cache, cacheKey, version) == cacheKey \in DOMAIN cache
CacheHit(cache, cacheKey, version) ==
  cacheKey \in DOMAIN cache /\ cache[cacheKey].version = version

\* getPhpMembersForClass: the value returned and the cache after the call.
getPhpMembersForClass(index, version, cache, classNameOrFqn) ==
  LET classKey == StripLeadingBackslashes(classNameOrFqn)
  IN IF classKey = <<>> THEN [value |-> EmptyMembers, cache |-> cache]
     ELSE IF CacheHit(cache, classKey, version)
     THEN [value |-> cache[classKey].value, cache |-> cache]
     ELSE LET value == ScanMembers(index, classKey)
          IN [value |-> value,
              cache |-> MapSet(cache, classKey, [version |-> version, value |-> value])]

\* What a membersOf call made in the current state returns.
MembersOfNow(classNameOrFqn) ==
  getPhpMembersForClass(phpWorkspaceIndex, phpWorkspaceIndexVersion,
                        phpWorkspaceMembersCache, classNameOrFqn).value

ClassArgs == { <<"Greeter">>, <<"\\", "App", "\\", "Greeter">> }

-----------------------------------------------------------------------------
(* The reference index (src/docs/18-unit-test-generator.md) *)

\* The keywords among the tokens of Texts (phpKeywords of lib/php-data).
phpKeywords == {"abstract", "class", "const", "echo", "enum", "final", "function", "interface",
                "namespace", "new", "private", "protected", "public", "static", "trait", "var"}

Reference(key, loc) == [key |-> key, location |-> loc]

\* The loop over staticCallRe: a call Class::method( is pushed under the class token
\* as written and under its last segment.
StaticCallReferences(uri, text) ==
  LET Refs(m) ==
        The({ <<Reference(<<"static:">> \o classToken \o <<"::", text[m.nameIndex]>>,
                          Location(uri, m.nameIndex))>>
              \o (IF AfterLast(classToken, "\\") # <<>>
                  THEN <<Reference(<<"static:">> \o AfterLast(classToken, "\\")
                                     \o <<"::", text[m.nameIndex]>>,
                                   Location(uri, m.nameIndex))>>
                  ELSE <<>>) :
              classToken \in {StripLeadingBackslashes(SubSeq(text, m.index, m.nameIndex - 2))} })
  IN The({ FlattenSeq([j \in 1..Len(matches) |-> Refs(matches[j])]) :
           matches \in {ExecAll("staticCall", text, 1)} })

\* The loop over methodCallRe: a call ->method( is pushed under the method name.
MethodCallReferences(uri, text) ==
  The({ [j \in 1..Len(matches) |->
           Reference(<<"method:", text[matches[j].nameIndex]>>,
                     Location(uri, matches[j].nameIndex))] :
        matches \in {ExecAll("methodCall", text, 1)} })

\* The loop over fnCallRe: a call name( is pushed unless the name is a keyword,
\* follows `function` or `new`, or follows -> or :: .
FnCallReferences(uri, text) ==
  The({ [j \in 1..Len(matches) |->
           Reference(<<"fn:", text[matches[j].nameIndex]>>,
                     Location(uri, matches[j].nameIndex))] :
        matches \in {SelectSeq(ExecAll("fnCall", text, 1),
                       LAMBDA m : /\ text[m.nameIndex] \notin phpKeywords
                                  /\ Tok(text, m.index - 1) \notin {"function", "new"}
                                  /\ Tok(text, m.index - 1) \notin {"->", "::"})} })

extractPhpReferencesFromDocument(document) ==
  The({ StaticCallReferences(document.uri, text)
        \o MethodCallReferences(document.uri, text)
        \o FnCallReferences(document.uri, text) :
        text \in {GetText(document.text)} })

\* extractPhpReferencesFromDocument tabulated over the documents of the model.
ReferencesTable ==
  [uri \in Files |-> [text \in Texts |->
     extractPhpReferencesFromDocument(Document(uri, text, "php"))]]

\* The loop of the reference build over the references of one document.
RECURSIVE InsertReferences(_, _, _)
InsertReferences(referenceIndex, refs, i) ==
  IF i > Len(refs) THEN referenceIndex
  ELSE InsertReferences(
         MapSet(referenceIndex, refs[i].key,
                Append(MapGet(referenceIndex, refs[i].key), refs[i].location)),
         refs, i + 1)

\* pushAll: a Location already held, under the same uri and range, is not added again.
PushAllNoDedup(locs) == locs
PushAll(locs) ==
  SelectSeq([i \in 1..Len(locs) |-> [loc |-> locs[i], first |-> \A j \in 1..(i - 1) : locs[j] # locs[i]]],
            LAMBDA e : e.first)

\* The declaration a CodeLens stands on.
CodeLensData(kind, name, className, uri, pos) ==
  [kind |-> kind, name |-> name, className |-> className, uri |-> uri, pos |-> pos]

\* resolvePhpReferenceLocationsForCodeLens(data, declRange): the call sites held for
\* the declaration, each once, without the declaration itself.
resolvePhpReferenceLocationsForCodeLens(referenceIndex, data) ==
  LET found == IF data.kind = "function"
               THEN MapGet(referenceIndex, <<"fn:", data.name>>)
               ELSE IF data.kind = "method"
               THEN MapGet(referenceIndex, <<"method:", data.name>>)
                    \o MapGet(referenceIndex, <<"static:", data.className, "::", data.name>>)
               ELSE <<>>
      unique == PushAll(found)
      kept == SelectSeq(unique, LAMBDA e : e.loc # Location(data.uri, data.pos))
  IN [i \in 1..Len(kept) |-> kept[i].loc]

\* if (phpWorkspaceReferenceIndexVersion === phpWorkspaceIndexVersion) return;
ReferenceIndexIsCurrentNever(referenceVersion, indexVersion) == FALSE
ReferenceIndexIsCurrent(referenceVersion, indexVersion) == referenceVersion = indexVersion

ReferenceCallers == {"r1", "r2"}

NoCall == [state |-> "idle", after |-> [f \in Files |-> Absent]]

NoScan == <<>>

-----------------------------------------------------------------------------
(* The route index *)

\* The files under routes/ : B stands for routes/web.php and C for routes/api.php,
\* a file that is not part of the workspace the editor events and the builds work
\* on; A is a file elsewhere.
RouteFiles == {"B", "C"}

\* /\/routes\/.*\.php$/i.test(normalized)
isLaravelRouteDocument(uri) == uri \in RouteFiles

\* match.index + match[0].indexOf(name): the first place of the name in the match.
RouteNameIndex(text, m) ==
  CHOOSE j \in m.index..m.nameIndex :
    /\ text[j] = text[m.nameIndex]
    /\ \A k \in m.index..(j - 1) : text[k] # text[m.nameIndex]

\* extractLaravelRouteNamesFromDocument: the matches of ->name('x'), then those of
\* Route::name('x').
extractLaravelRouteNamesFromDocument(document) ==
  The({ The({ [j \in 1..Len(matches) |->
                 [name |-> text[matches[j].nameIndex],
                  location |-> Location(document.uri, RouteNameIndex(text, matches[j]))]] :
              matches \in {ExecAll("routeName", text, 1)
                             \o ExecAll("routeGroupName", text, 1)} }) :
        text \in {GetText(document.text)} })

\* extractLaravelRouteNamesFromDocument tabulated over the documents of the model.
RouteNamesTable ==
  [uri \in Files \cup RouteFiles |-> [text \in AllTexts |->
     extractLaravelRouteNamesFromDocument(Document(uri, text, "php"))]]

RouteWorkspace ==
  [index |-> laravelRouteIndex, keysByUri |-> laravelRouteIndexKeysByUri,
   version |-> laravelRouteIndexVersion]

SetRouteWorkspace(rs) ==
  /\ laravelRouteIndex' = rs.index
  /\ laravelRouteIndexKeysByUri' = rs.keysByUri
  /\ laravelRouteIndexVersion' = rs.version

\* deleteLaravelRouteIndexForUri(uri)
deleteLaravelRouteIndexForUriKeepsEmpty(rs, uriKey) ==
  IF uriKey \notin DOMAIN rs.keysByUri THEN rs
  ELSE The({ [index |-> [k \in DOMAIN rs.index |->
                           IF k \in keys THEN FilterLocs(rs.index[k], uriKey) ELSE rs.index[k]],
              keysByUri |-> MapDelete(rs.keysByUri, uriKey),
              version |-> rs.version + 1] :
             keys \in {rs.keysByUri[uriKey]} })
deleteLaravelRouteIndexForUri(rs, uriKey) ==
  IF uriKey \notin DOMAIN rs.keysByUri THEN rs
  ELSE The({ [index |-> [k \in {x \in DOMAIN rs.index :
                                  x \notin keys \/ FilterLocs(rs.index[x], uriKey) # <<>>} |->
                           IF k \in keys THEN FilterLocs(rs.index[k], uriKey) ELSE rs.index[k]],
              keysByUri |-> MapDelete(rs.keysByUri, uriKey),
              version |-> rs.version + 1] :
             keys \in {rs.keysByUri[uriKey]} })

\* The loop of updateLaravelRouteIndexForDocument over the extracted names.
RECURSIVE InsertRouteNames(_, _, _)
InsertRouteNames(index, extracted, i) ==
  IF i > Len(extracted) THEN index
  ELSE InsertRouteNames(
         MapSet(index, extracted[i].name,
                Append(MapGet(index, extracted[i].name), extracted[i].location)),
         extracted, i + 1)

\* updateLaravelRouteIndexForDocument(document)
updateLaravelRouteIndexForDocument(rs, document) ==
  IF document.languageId # "php" \/ ~isLaravelRouteDocument(document.uri) THEN rs
  ELSE The({ The({ [index |-> InsertRouteNames(deleted.index, extracted, 1),
                    keysByUri |-> IF keys # {}
                                  THEN MapSet(deleted.keysByUri, document.uri, keys)
                                  ELSE deleted.keysByUri,
                    version |-> deleted.version + 1] :
                   keys \in {{extracted[i].name : i \in 1..Len(extracted)}} }) :
             extracted \in {RouteNamesTable[document.uri][document.text]},
             deleted \in {deleteLaravelRouteIndexForUri(rs, document.uri)} })

\* scheduleLaravelIndexUpdate(document, delayMs)
scheduleLaravelIndexUpdate(timers, key, delayMs) ==
  IF isLaravelRouteDocument(key) THEN MapSet(timers, key, delayMs) ELSE timers

-----------------------------------------------------------------------------
(* The operations called directly: updateFile, deleteFile, membersOf *)

\* The record of a call; repeat counts how often it was made in a row.
Op(op, file, text, languageId) ==
  [op |-> op, file |-> file, text |-> text, languageId |-> languageId, repeat |-> 1]

NoOp == Op("none", "", Absent, "")

Record(op) ==
  IF [lastOp EXCEPT !.repeat = 1] = op
  THEN [op EXCEPT !.repeat = IF lastOp.repeat < MaxRepeat THEN lastOp.repeat + 1 ELSE MaxRepeat]
  ELSE op

buildVars == << phpWorkspaceIndexBuilding, callers, scansStarted, scansActive, deletedSince >>

editorVars == << phpIndexTimersByUri, timeouts, disk, textDocuments, closedSince, definitionRequest >>

\* No built-in signature lookup has been made.
NoLookup ==
  [phase |-> "none", phpPath |-> "", functionName |-> "", process |-> "none",
   stdout |-> <<>>, timer |-> "none", promise |-> "none", payload |-> "null",
   settles |-> 0, settledBy |-> "", result |-> <<>>]

NoRequest ==
  [stage |-> "none", uri |-> "", text |-> Absent, kind |-> "", word |-> <<>>,
   result |-> <<>>, indexConsulted |-> FALSE]

\* phpWorkspaceIndexBuilding = null
Idle == [token |-> "null", phase |-> "none", uris |-> <<>>]

Callers == {"c1", "c2"}

\* The history of a full scan: the files findFiles returned and, for each file
\* handled so far, the text read (Absent when the read failed).  It is kept for
\* the scans a caller of ensurePhpWorkspaceIndex() waits for when the files are
\* enumerated.
NoIndexScan == [uris |-> <<>>, reads |-> <<>>]

InitIndex ==
  /\ phpWorkspaceIndex = EmptyMap
  /\ phpWorkspaceIndexKeysByUri = EmptyMap
  /\ phpWorkspaceIndexVersion = 0
  /\ phpWorkspaceMembersCache = EmptyMap
  /\ phpWorkspaceSymbolInfo = EmptyMap
  /\ phpWorkspaceClassInfoByFqn = <<>>
  /\ phpWorkspaceClassFqnsByShortName = EmptyMap
  /\ phpWorkspaceFunctionInfoByKey = EmptyMap
  /\ callers = [c \in Callers |-> "idle"]
  /\ definitionRequest = NoRequest
  /\ lastOp = NoOp
  /\ updateHistory = [f \in Files |-> <<Absent, Absent>>]
  /\ indexedText = [f \in Files |-> Absent]
  /\ closedSince = [f \in Files |-> "no"]
  /\ deletedSince = [f \in Files |-> "no"]
  /\ indexScan = NoIndexScan
  /\ phpWorkspaceReferenceIndex = EmptyMap
  /\ phpWorkspaceReferenceIndexVersion = -1
  /\ phpWorkspaceReferenceIndexBuilding = Idle
  /\ referenceCallers = [c \in ReferenceCallers |-> NoCall]
  /\ referenceScan = NoScan
  /\ laravelRouteIndex = EmptyMap
  /\ laravelRouteIndexKeysByUri = EmptyMap
  /\ laravelRouteIndexVersion = 0
  /\ routeIndexedText = [f \in RouteFiles |-> Absent]
  /\ debouncerTimers = EmptyMap
  /\ liveTimeouts = {}
  /\ debounceLog = <<>>
  /\ settledPromises = {}
  /\ phpBuiltInFunctionSignatureCache = EmptyMap
  /\ reflection = NoLookup

\* The module as loaded (lines 137-146), before activate() runs.
Init ==
  /\ InitIndex
  /\ phpWorkspaceIndexBuilding = Idle
  /\ phpIndexTimersByUri = EmptyMap
  /\ timeouts = [f \in Files |-> 0]
  /\ laravelRouteIndexBuilding = Idle
  /\ laravelIndexTimersByUri = EmptyMap
  /\ scansStarted = 0
  /\ scansActive = 0
  /\ disk = [f \in Files |-> Absent]
  /\ textDocuments = [f \in Files |-> Absent]

\* updatePhpIndexForDocument(document) applied to the index variables.
IndexUpdate(f, text, languageId) ==
  /\ phpWorkspaceIndexVersion + 2 <= MaxVersion
  /\ \E ws \in {updatePhpIndexForDocument(Workspace, Document(f, text, languageId))} :
       SetWorkspace(ws)
  /\ indexedText' = IF languageId = "php" THEN [indexedText EXCEPT ![f] = text]
                    ELSE indexedText

\* updatePhpIndexForDocument(document) called with a document of uri f.
UpdateFile(f, text, languageId) ==
  /\ IndexUpdate(f, text, languageId)
  /\ lastOp' = Record(Op("update", f, text, languageId))
  /\ updateHistory' = IF languageId = "php"
                      THEN [updateHistory EXCEPT ![f] = <<@[2], text>>]
                      ELSE updateHistory
  /\ UNCHANGED << serviceVars, otherIndexVars, indexScan, phpWorkspaceMembersCache, buildVars, editorVars >>

\* deletePhpIndexForUri(uri) called with uri f.
IndexDelete(f) ==
  /\ phpWorkspaceIndexVersion + 1 <= MaxVersion
  /\ \E ws \in {deletePhpIndexForUri(Workspace, f)} : SetWorkspace(ws)
  /\ indexedText' = [indexedText EXCEPT ![f] = Absent]

DeleteFile(f) ==
  /\ IndexDelete(f)
  /\ lastOp' = Record(Op("delete", f, indexedText[f], ""))
  /\ UNCHANGED << serviceVars, otherIndexVars, indexScan, updateHistory, phpWorkspaceMembersCache, buildVars, editorVars >>

\* getPhpMembersForClass(classNameOrFqn)
MembersOf(classNameOrFqn) ==
  /\ LET r == getPhpMembersForClass(phpWorkspaceIndex, phpWorkspaceIndexVersion,
                                    phpWorkspaceMembersCache, classNameOrFqn)
     IN phpWorkspaceMembersCache' = r.cache
  /\ UNCHANGED << serviceVars, otherIndexVars, indexScan, indexVars, lastOp, updateHistory, indexedText, buildVars, editorVars >>

\* The texts of the updateFile calls of Spec: two classes named Greeter in two
\* namespaces, a function and a class named f, and a text without declarations.
UpdateTexts == {TextAppGreeterFoo, TextOtherGreeter, TextFunctionF, TextClassF, TextNoSymbols}

UpdateFileCall == \E f \in Files, text \in UpdateTexts, languageId \in LanguageIds :
                    UpdateFile(f, text, languageId)

DeleteFileCall == \E f \in Files : DeleteFile(f)

MembersOfCall == \E c \in ClassArgs : MembersOf(c)

Next == UpdateFileCall \/ DeleteFileCall

Spec == Init /\ [][Next]_vars

\* updateFile on texts with and without a namespace, with free functions, global
\* constants and an unclosed class, and deleteFile.
UpdateFileExtraction == \E f \in Files, text \in ExtractionTexts : UpdateFile(f, text, "php")

NextExtraction == UpdateFileExtraction \/ DeleteFileCall

SpecExtraction == Init /\ [][NextExtraction]_vars

\* updateFile on texts with typed, documented and untyped functions, and deleteFile.
UpdateFileSignatures == \E f \in Files, text \in SignatureTexts : UpdateFile(f, text, "php")

NextSignatures == UpdateFileSignatures \/ DeleteFileCall

SpecSignatures == Init /\ [][NextSignatures]_vars

\* The calls of the doc-comment properties: files whose doc-comments repeat a tag.
UpdateFileDocblock == \E f \in Files, text \in DocblockTexts : UpdateFile(f, text, "php")

NextDocblock == UpdateFileDocblock \/ DeleteFileCall

SpecDocblock == Init /\ [][NextDocblock]_vars

\* The calls of the type inference properties: files with annotated and assigned
\* variables.
UpdateFileInference == \E f \in Files, text \in InferenceTexts : UpdateFile(f, text, "php")

NextInference == UpdateFileInference \/ DeleteFileCall

SpecInference == Init /\ [][NextInference]_vars

\* The same calls on the texts whose classes name supertypes.
UpdateFileSupertypes == \E f \in Files, text \in SupertypeTexts : UpdateFile(f, text, "php")

NextSupertypes == UpdateFileSupertypes \/ DeleteFileCall

SpecSupertypes == Init /\ [][NextSupertypes]_vars

\* The same calls on texts whose classes name their supertypes with a leading
\* backslash.
UpdateFileRooted == \E f \in Files, text \in RootedTexts : UpdateFile(f, text, "php")

NextRooted == UpdateFileRooted \/ DeleteFileCall

SpecRooted == Init /\ [][NextRooted]_vars

\* The same calls together with membersOf, on the texts that declare classes;
\* the history of updates is not recorded here.
MemberTexts == {TextAppGreeterFoo, TextAppGreeterBar, TextOtherGreeter}

UpdateFileMembers ==
  \E f \in Files, text \in MemberTexts :
     /\ IndexUpdate(f, text, "php")
     /\ UNCHANGED << serviceVars, otherIndexVars, indexScan, lastOp, updateHistory, phpWorkspaceMembersCache, buildVars, editorVars >>

DeleteFileMembers ==
  \E f \in Files :
     /\ IndexDelete(f)
     /\ UNCHANGED << serviceVars, otherIndexVars, indexScan, lastOp, updateHistory, phpWorkspaceMembersCache, buildVars, editorVars >>

NextMembers == UpdateFileMembers \/ DeleteFileMembers \/ MembersOfCall

SpecMembers == Init /\ [][NextMembers]_vars

-----------------------------------------------------------------------------
(* Properties of updateFile and deleteFile (specification Spec) *)

LocationSet(locs) == {locs[i] : i \in 1..Len(locs)}

LocationsOutside(locs, f) == SelectSeq(locs, LAMBDA loc : loc.uri # f)

\* C1  Exact retraction: when the last two updates of file f indexed texts with
\* disjoint key sets X and then Y, no key of X maps to a Location in f and every
\* key of Y maps to a Location in f, whatever was done to the other files.
ExactRetraction ==
  \A f \in Files :
    (updateHistory[f][1] # Absent /\ indexedText[f] = updateHistory[f][2]
       /\ KeysOfText(updateHistory[f][1]) \cap KeysOfText(updateHistory[f][2]) = {})
    => /\ \A k \in KeysOfText(updateHistory[f][1]) : ~HasLocationIn(phpWorkspaceIndex, k, f)
       /\ \A k \in KeysOfText(updateHistory[f][2]) : HasLocationIn(phpWorkspaceIndex, k, f)

\* Witness of C1: f was re-indexed from X to a disjoint Y, both with keys, while the
\* other file holds a key of X.
ExactRetractionWitness ==
  \E f \in Files, g \in Files :
    /\ f # g
    /\ updateHistory[f][1] # Absent /\ indexedText[f] = updateHistory[f][2]
    /\ KeysOfText(updateHistory[f][1]) # {} /\ KeysOfText(updateHistory[f][2]) # {}
    /\ KeysOfText(updateHistory[f][1]) \cap KeysOfText(updateHistory[f][2]) = {}
    /\ \E k \in KeysOfText(updateHistory[f][1]) : HasLocationIn(phpWorkspaceIndex, k, g)

\* C2  Idempotent re-index: an updateFile that repeats the previous call (same
\* file, same text) leaves the key set and, for every key, the set and the number
\* of its Locations as they were.
IdempotentReindex ==
  [][ (lastOp'.op = "update" /\ lastOp'.languageId = "php" /\ lastOp'.repeat >= 2)
      => /\ DOMAIN phpWorkspaceIndex' = DOMAIN phpWorkspaceIndex
         /\ \A k \in DOMAIN phpWorkspaceIndex :
              /\ LocationSet(phpWorkspaceIndex'[k]) = LocationSet(phpWorkspaceIndex[k])
              /\ Len(phpWorkspaceIndex'[k]) = Len(phpWorkspaceIndex[k]) ]_vars

\* Witness of C2: a text with keys was indexed twice in a row for one file while
\* the other file holds one of its keys.
IdempotentReindexWitness ==
  /\ lastOp.op = "update" /\ lastOp.languageId = "php" /\ lastOp.repeat >= 2
  /\ KeysOfText(lastOp.text) # {}
  /\ \E g \in Files \ {lastOp.file} :
       \E k \in KeysOfText(lastOp.text) : HasLocationIn(phpWorkspaceIndex, k, g)

\* C3  Delete completeness (lookup): a deleteFile(f) step leaves no key with a
\* Location in f and keeps, under every key, the Locations of the other files.
DeleteCompleteness ==
  [][ lastOp'.op = "delete"
      => /\ KeysWithLocationIn(phpWorkspaceIndex', lastOp'.file) = {}
         /\ \A k \in DOMAIN phpWorkspaceIndex :
              LET kept == LocationsOutside(phpWorkspaceIndex[k], lastOp'.file)
              IN IF kept = <<>> THEN k \notin DOMAIN phpWorkspaceIndex'
                 ELSE k \in DOMAIN phpWorkspaceIndex' /\ phpWorkspaceIndex'[k] = kept ]_vars

\* Witness of C3: a file with entries was deleted and the other file still has a
\* Location under a key the deleted file contributed too.
DeleteCompletenessWitness ==
  /\ lastOp.op = "delete" /\ lastOp.text # Absent
  /\ \E k \in KeysOfText(lastOp.text) :
       \E g \in Files \ {lastOp.file} : HasLocationIn(phpWorkspaceIndex, k, g)

\* C5 as stated: the version is strictly greater after every updateFile call on
\* a PHP document and after every deleteFile call.
VersionStrictlyIncreasesOnEveryCall ==
  [][ (lastOp' # lastOp /\ (lastOp'.op = "delete"
                             \/ (lastOp'.op = "update" /\ lastOp'.languageId = "php")))
      => phpWorkspaceIndexVersion' > phpWorkspaceIndexVersion ]_vars

\* C5 amended: the version is strictly greater after every updateFile call on a
\* PHP document and after every deleteFile call on a file that has tracked keys;
\* a deleteFile call on a file without tracked keys leaves it unchanged; it
\* never decreases.
VersionMonotonicity ==
  [][ /\ phpWorkspaceIndexVersion' >= phpWorkspaceIndexVersion
      /\ (lastOp' # lastOp /\ lastOp'.op = "update" /\ lastOp'.languageId = "php")
           => phpWorkspaceIndexVersion' > phpWorkspaceIndexVersion
      /\ (lastOp' # lastOp /\ lastOp'.op = "delete")
           => IF lastOp'.file \in DOMAIN phpWorkspaceIndexKeysByUri
              THEN phpWorkspaceIndexVersion' > phpWorkspaceIndexVersion
              ELSE phpWorkspaceIndexVersion' = phpWorkspaceIndexVersion ]_vars

\* Witness of C5: the index has been mutated, and the last call was a deleteFile
\* on a file without tracked keys, made after a deleteFile that retracted entries
\* of the same file.
VersionMonotonicityWitness ==
  /\ lastOp.op = "delete" /\ lastOp.repeat >= 2
  /\ phpWorkspaceIndexVersion >= 2
  /\ lastOp.file \notin DOMAIN phpWorkspaceIndexKeysByUri

\* File f has no entry in the index: no Location, no symbol metadata, no callable
\* signature, no ClassInfo and no key set.
HasNoEntries(f) ==
  /\ KeysWithLocationIn(phpWorkspaceIndex, f) = {}
  /\ \A k \in DOMAIN phpWorkspaceSymbolInfo :
       \A i \in 1..Len(phpWorkspaceSymbolInfo[k]) : phpWorkspaceSymbolInfo[k][i].uriKey # f
  /\ \A k \in DOMAIN phpWorkspaceFunctionInfoByKey :
       \A i \in 1..Len(phpWorkspaceFunctionInfoByKey[k]) :
          phpWorkspaceFunctionInfoByKey[k][i].uriKey # f
  /\ \A i \in 1..Len(phpWorkspaceClassInfoByFqn) : phpWorkspaceClassInfoByFqn[i].uri # f
  /\ f \notin DOMAIN phpWorkspaceIndexKeysByUri

\* mapAfter holds, under every key, the Locations map holds, in their order, and
\* besides them only Locations in file f.
OnlyAddsLocations(map, mapAfter, f) ==
  /\ DOMAIN map \subseteq DOMAIN mapAfter
  /\ \A k \in DOMAIN mapAfter :
       SelectSeq(mapAfter[k], LAMBDA e : e.uri # f) = MapGet(map, k)

\* The same for the entries of the symbol metadata and of the callable signatures.
OnlyAddsInfos(map, mapAfter, f) ==
  /\ DOMAIN map \subseteq DOMAIN mapAfter
  /\ \A k \in DOMAIN mapAfter :
       SelectSeq(mapAfter[k], LAMBDA e : e.uriKey # f) = MapGet(map, k)

\* The step is a deleteFile(f) that changes none of the six tables.
DeleteChangesNothing(f) ==
  lastOp'.op = "delete" =>
    /\ phpWorkspaceIndex' = phpWorkspaceIndex
    /\ phpWorkspaceSymbolInfo' = phpWorkspaceSymbolInfo
    /\ phpWorkspaceFunctionInfoByKey' = phpWorkspaceFunctionInfoByKey
    /\ phpWorkspaceClassInfoByFqn' = phpWorkspaceClassInfoByFqn
    /\ phpWorkspaceClassFqnsByShortName' = phpWorkspaceClassFqnsByShortName
    /\ phpWorkspaceIndexKeysByUri' = phpWorkspaceIndexKeysByUri

\* The step is an updateFile of f that keeps the Locations, the symbol metadata,
\* the callable signatures and the key sets of the other files and adds only
\* entries of f to them.
UpdateOnlyAddsEntries(f) ==
  lastOp'.op = "update" =>
    /\ OnlyAddsLocations(phpWorkspaceIndex, phpWorkspaceIndex', f)
    /\ OnlyAddsInfos(phpWorkspaceSymbolInfo, phpWorkspaceSymbolInfo', f)
    /\ OnlyAddsInfos(phpWorkspaceFunctionInfoByKey, phpWorkspaceFunctionInfoByKey', f)
    /\ \A g \in DOMAIN phpWorkspaceIndexKeysByUri :
         /\ g \in DOMAIN phpWorkspaceIndexKeysByUri'
         /\ phpWorkspaceIndexKeysByUri'[g] = phpWorkspaceIndexKeysByUri[g]

\* C13 as stated: deleteFile on a file without entries changes none of the six
\* tables, and updateFile on a file without entries keeps every entry of the other
\* files, in the ClassInfo map too, adding only entries of the file itself.
UnknownFileIsSafe ==
  [][ \A f \in Files : (lastOp'.file = f /\ HasNoEntries(f)) =>
        /\ DeleteChangesNothing(f)
        /\ UpdateOnlyAddsEntries(f)
        /\ lastOp'.op = "update" =>
             SelectSeq(phpWorkspaceClassInfoByFqn', LAMBDA e : e.uri # f)
               = phpWorkspaceClassInfoByFqn ]_vars

\* C13 amended: as stated, except that in the ClassInfo map the entry of a
\* fully-qualified name that the updated file declares too is replaced, in its
\* place, by the ClassInfo of the updated file; every other ClassInfo is kept and
\* the new ones follow them.
UnknownFileIsSafeAmended ==
  [][ \A f \in Files : (lastOp'.file = f /\ HasNoEntries(f)) =>
        /\ DeleteChangesNothing(f)
        /\ UpdateOnlyAddsEntries(f)
        /\ lastOp'.op = "update" =>
             /\ Len(phpWorkspaceClassInfoByFqn') >= Len(phpWorkspaceClassInfoByFqn)
             /\ \A i \in 1..Len(phpWorkspaceClassInfoByFqn') :
                  IF i <= Len(phpWorkspaceClassInfoByFqn)
                     /\ (lastOp'.languageId # "php"
                         \/ phpWorkspaceClassInfoByFqn[i].fqn
                              \notin ClassFqnsOfText(lastOp'.text))
                  THEN phpWorkspaceClassInfoByFqn'[i] = phpWorkspaceClassInfoByFqn[i]
                  ELSE /\ phpWorkspaceClassInfoByFqn'[i].uri = f
                       /\ i <= Len(phpWorkspaceClassInfoByFqn)
                            => phpWorkspaceClassInfoByFqn'[i].fqn
                                 = phpWorkspaceClassInfoByFqn[i].fqn ]_vars

\* Witness of C13: the first updateFile of a file has been made with a text that
\* declares a class the other file's indexed text declares too.
UnknownFileIsSafeWitness ==
  /\ lastOp.op = "update" /\ lastOp.languageId = "php" /\ lastOp.repeat = 1
  /\ updateHistory[lastOp.file] = <<Absent, lastOp.text>>
  /\ \E g \in Files \ {lastOp.file} :
       /\ indexedText[g] # Absent
       /\ ClassFqnsOfText(indexedText[g]) \cap ClassFqnsOfText(lastOp.text) # {}

-----------------------------------------------------------------------------
(* Properties of membersOf (specification SpecMembers) *)

ShortNameOf(fqn) == AfterLast(fqn, "\\")

\* The classes of text that no other file's indexed text declares.
ClassesOnlyIn(f, text) ==
  {q \in ClassFqnsOfText(text) :
     \A g \in Files \ {f} :
        indexedText[g] = Absent \/ q \notin ClassFqnsOfText(indexedText[g])}

\* C4 as stated: after deleteFile(f), membersOf of the fully-qualified name and of
\* the short name of every class that only f declared returns three empty lists.
DeleteCompletenessMembers ==
  [][ \A f \in Files :
        (indexedText[f] # Absent /\ indexedText'[f] = Absent)
        => \A q \in ClassesOnlyIn(f, indexedText[f]) :
             /\ MembersOfNow(q)' = EmptyMembers
             /\ MembersOfNow(ShortNameOf(q))' = EmptyMembers ]_vars

\* C7  membersOf cache coherence: in every state a membersOf call returns what a
\* scan of the current index keys returns.
MembersCacheCoherence ==
  \A c \in ClassArgs :
     MembersOfNow(c) = ScanMembers(phpWorkspaceIndex, StripLeadingBackslashes(c))

\* Witness of C7: the cache holds, for Greeter, a value computed at an older
\* version with property foo, and the index now gives bar and not foo.
MembersCacheCoherenceWitness ==
  /\ <<"Greeter">> \in DOMAIN phpWorkspaceMembersCache
  /\ phpWorkspaceMembersCache[<<"Greeter">>].version < phpWorkspaceIndexVersion
  /\ <<"foo">> \in phpWorkspaceMembersCache[<<"Greeter">>].value.properties
  /\ MembersOfNow(<<"Greeter">>).properties = {<<"bar">>}

-----------------------------------------------------------------------------
(* References and definition lookup *)

IsNameToken(t) == IsWord(t) \/ t = "\\"

\* document.getWordRangeAtPosition(position, /[\\A-Za-z_][\\\w]*/): the bounds of
\* the run of name tokens of the line around character c, <<0, 0>> when there is none.
WordRangeAt(line, c) ==
  IF c \notin 1..Len(line) \/ ~IsNameToken(line[c]) THEN <<0, 0>>
  ELSE << CHOOSE a \in 1..c :
            /\ \A x \in a..c : IsNameToken(line[x])
            /\ (a = 1 \/ ~IsNameToken(line[a - 1])),
          CHOOSE b \in c..Len(line) :
            /\ \A x \in c..b : IsNameToken(line[x])
            /\ (b = Len(line) \/ ~IsNameToken(line[b + 1])) >>

NoReference == [ok |-> FALSE, kind |-> "", word |-> <<>>, classToken |-> <<>>, member |-> ""]

getPhpReferenceAtPosition(lines, n, c) ==
  LET line == lines[n]
      range == WordRangeAt(line, c)
      raw == SubSeq(line, range[1], range[2])
      word == StripLeadingBackslashes(raw)
      isStaticMember == /\ c >= 3 /\ IsWord(line[c]) /\ line[c - 1] = "::"
                        /\ IsNameToken(line[c - 2])
      isObjectMember == /\ c >= 4 /\ IsWord(line[c]) /\ line[c - 1] = "->"
                        /\ IsWord(line[c - 2]) /\ line[c - 3] = "$"
  IN IF range = <<0, 0>> \/ raw = <<>> THEN NoReference
     ELSE IF isStaticMember
     THEN LET r == WordRangeAt(line, c - 2)
          IN [ok |-> TRUE, kind |-> "static", word |-> word,
              classToken |-> StripLeadingBackslashes(SubSeq(line, r[1], r[2])),
              member |-> line[c]]
     ELSE IF isObjectMember
     THEN [ok |-> TRUE, kind |-> IF line[c - 2] = "this" THEN "this" ELSE "object",
           word |-> word, classToken |-> <<>>, member |-> line[c]]
     ELSE [ok |-> TRUE, kind |-> "plain", word |-> word, classToken |-> <<>>, member |-> ""]

\* getLaravelRouteNameAtPosition: the name inside route('...') or to_route('...')
\* under the position, "" when there is none.
getLaravelRouteNameAtPosition(lines, n, c) ==
  LET line == lines[n]
  IN IF /\ c >= 4 /\ c < Len(line)
        /\ line[c - 3] \in {"route", "to_route"} /\ line[c - 2] = "("
        /\ line[c - 1] \in {"'", "\""} /\ line[c + 1] = line[c - 1]
     THEN line[c] ELSE ""

\* The offset of the first match of a declaration pattern whose name is `name`
\* (new RegExp(`...${wordEscaped}...`).exec(text)); 0 when there is none.
FirstDeclarationOf(re, text, name) ==
  The({ IF hits = {} THEN 0 ELSE CHOOSE i \in hits : \A j \in hits : i <= j :
        hits \in {{i \in 1..Len(text) :
                     \E m \in {MatchAt(re, text, i)} : m.ok /\ text[m.nameIndex] = name}} })

\* findLocalPhpDefinition for a plain reference (lines 1185-1190 and 1227-1239):
\* a class, then a function, then a const named by the last segment of the word,
\* then a class named by the last segment of the namespaced word.
\* The result is a sequence of Locations, empty when nothing is found.
FindLocalNothing(uri, lines, reference) == <<>>
findLocalPhpDefinition(uri, lines, reference) ==
  LET wordEscaped == AfterLast(reference.word, "\\")
      name == IF wordEscaped = <<>> THEN "" ELSE wordEscaped[1]
      fqnCandidate == IF getPhpNamespace(lines) # <<>>
                      THEN getPhpNamespace(lines) \o <<"\\">> \o reference.word
                      ELSE reference.word
      fqnEscaped == AfterLast(fqnCandidate, "\\")
      fqnName == IF fqnEscaped = <<>> THEN "" ELSE fqnEscaped[1]
  IN IF reference.word = <<>> THEN <<>>
     ELSE The({ The({ IF classMatch # 0 THEN <<Location(uri, classMatch)>>
                      ELSE IF funcMatch # 0 THEN <<Location(uri, funcMatch)>>
                      ELSE IF constMatch # 0 THEN <<Location(uri, constMatch)>>
                      ELSE IF fqnClassMatch # 0 THEN <<Location(uri, fqnClassMatch)>>
                      ELSE <<>> :
                      classMatch \in {FirstDeclarationOf("class", text, name)},
                      funcMatch \in {FirstDeclarationOf("function", text, name)},
                      constMatch \in {FirstDeclarationOf("const", text, name)},
                      fqnClassMatch \in {FirstDeclarationOf("class", text, fqnName)} }) :
                text \in {GetText(lines)} })

\* resolvePhpReferenceFromIndex for a plain reference (lines 1272-1277).
resolvePhpReferenceFromIndexShortFirst(index, reference) ==
  LET word == reference.word
      short == AfterLast(word, "\\")
  IN IF MapGet(index, short) # <<>> THEN MapGet(index, short)
     ELSE MapGet(index, word)
resolvePhpReferenceFromIndex(index, reference) ==
  LET word == reference.word
      short == AfterLast(word, "\\")
  IN IF MapGet(index, word) # <<>> THEN MapGet(index, word)
     ELSE MapGet(index, short)

\* Calls of updatePhpIndexForDocument and deletePhpIndexForUri on texts that declare
\* a class Greeter in two namespaces, together with resolvePhpReferenceFromIndex for
\* a plain reference to a class, written with and without a namespace.
AmbiguityTexts == {TextAppGreeterFoo, TextOtherGreeter, TextNoSymbols}

AmbiguityWords ==
  { <<"Greeter">>, <<"Other", "\\", "Greeter">>, <<"App", "\\", "Greeter">>,
    <<"Lost", "\\", "Greeter">> }

ResolveFromIndex(word) ==
  /\ definitionRequest' =
       [stage |-> "done", uri |-> "", text |-> Absent, kind |-> "plain", word |-> word,
        result |-> resolvePhpReferenceFromIndex(phpWorkspaceIndex,
                                                [ok |-> TRUE, kind |-> "plain", word |-> word]),
        indexConsulted |-> TRUE]
  /\ UNCHANGED << serviceVars, otherIndexVars, indexScan, indexVars, indexedText, lastOp, updateHistory,
                  phpWorkspaceMembersCache, buildVars, phpIndexTimersByUri, timeouts,
                  disk, textDocuments, closedSince >>

UpdateFileAmbiguity == \E f \in Files, text \in AmbiguityTexts : UpdateFile(f, text, "php")

ResolveFromIndexCall == \E word \in AmbiguityWords : ResolveFromIndex(word)

NextAmbiguity == UpdateFileAmbiguity \/ DeleteFileCall \/ ResolveFromIndexCall

SpecAmbiguity == Init /\ [][NextAmbiguity]_vars

\* document.getText(new Range(new Position(0, 0), position)): the text before
\* token c of line n.
HeadBefore(lines, n, c) == FlattenSeq(SubSeq(lines, 1, n - 1)) \o SubSeq(lines[n], 1, c - 1)

\* findEnclosingPhpClassName(document, position): the name of the last type
\* declaration of the text before the position; "" stands for undefined.
findEnclosingPhpClassName(lines, n, c) ==
  The({ The({ IF matches = <<>> THEN "" ELSE head[matches[Len(matches)].nameIndex] :
              matches \in {ExecAll("class", head, 1)} }) :
        head \in {HeadBefore(lines, n, c)} })

\* reference.member.toUpperCase(), for the member names of the texts of the model.
ToUpperCase(member) ==
  CASE member = "hello" -> "HELLO"
    [] member = "limit" -> "LIMIT"
    [] OTHER -> member

\* The first key of `candidates` that holds a Location, 0 when there is none
\* (for (const key of candidates) { ... if (locs && locs.length > 0) return locs; }).
FirstKeyWithLocations(index, candidates) ==
  The({ IF hits = {} THEN 0 ELSE CHOOSE i \in hits : \A j \in hits : i <= j :
        hits \in {{i \in 1..Len(candidates) : MapGet(index, candidates[i]) # <<>>}} })

\* The candidate keys of a $this reference for a class name.
ThisCandidates(className, member) ==
  << <<className, "::", member>>, <<className, "->", "$", member>>,
     <<className, "->", member>>, <<className, "::", ToUpperCase(member)>> >>

\* resolvePhpReferenceFromIndex(document, position, reference) for a $this
\* reference (lines 1256-1270), falling through to the plain lookup of the word
\* (lines 1272-1277).
resolvePhpThisReferenceFromIndex(index, lines, n, c, reference) ==
  The({ The({ IF className # "" /\ hit # 0 THEN index[ThisCandidates(className, reference.member)[hit]]
              ELSE resolvePhpReferenceFromIndex(index, reference) :
              hit \in {IF className = "" THEN 0
                       ELSE FirstKeyWithLocations(index,
                                                  ThisCandidates(className, reference.member))} }) :
        className \in {findEnclosingPhpClassName(lines, n, c)} })

\* A $this->member reference of the indexed document of file f is resolved from
\* the index.
ResolveThis(f, n, c) ==
  /\ indexedText[f] # Absent
  /\ n \in 1..Len(indexedText[f])
  /\ c \in 1..Len(indexedText[f][n])
  /\ \E reference \in {getPhpReferenceAtPosition(indexedText[f], n, c)} :
       /\ reference.ok /\ reference.kind = "this"
       /\ definitionRequest' =
            [stage |-> "done", uri |-> f, text |-> indexedText[f], kind |-> "this",
             word |-> reference.word,
             result |-> resolvePhpThisReferenceFromIndex(phpWorkspaceIndex, indexedText[f],
                                                         n, c, reference),
             indexConsulted |-> TRUE]
  /\ UNCHANGED << serviceVars, otherIndexVars, indexScan, indexVars, indexedText, lastOp, updateHistory,
                  phpWorkspaceMembersCache, buildVars, phpIndexTimersByUri, timeouts,
                  disk, textDocuments, closedSince >>

UpdateFileEnclosing == \E f \in Files, text \in EnclosingTexts : UpdateFile(f, text, "php")

ResolveThisCall ==
  \E f \in Files :
    \E n \in 1..Len(indexedText[f]) :
      \E c \in 1..Len(indexedText[f][n]) : ResolveThis(f, n, c)

NextEnclosing == UpdateFileEnclosing \/ DeleteFileCall \/ ResolveThisCall

SpecEnclosing == Init /\ [][NextEnclosing]_vars

\* resolvePhpClassTokenInDocument(text, classToken): the name a use clause gives
\* a class token without a namespace separator, else the token.
resolvePhpClassTokenInDocument(lines, classToken) ==
  IF classToken = <<>> \/ \E x \in 1..Len(classToken) : classToken[x] = "\\" THEN classToken
  ELSE IF AliasGet(parsePhpUseAliases(lines), classToken[1]) # <<>>
  THEN AliasGet(parsePhpUseAliases(lines), classToken[1])
  ELSE classToken

\* findPhpClassMemberRange(text, className): the offsets of the braces of the
\* body of the first class, interface, trait or enum of that name; <<0, 0>> when
\* there is none.
findPhpClassMemberRange(text, className) ==
  The({ The({ IF match = 0 \/ braceStart = 0 THEN <<0, 0>>
              ELSE IF findMatchingBrace(text, braceStart) = 0 THEN <<0, 0>>
              ELSE <<braceStart, findMatchingBrace(text, braceStart)>> :
              braceStart \in {IF match = 0 THEN 0 ELSE IndexOfTok(text, "{", match)} }) :
        match \in {FirstDeclarationOf("class", text, className)} })

\* text.slice(range.start, range.end), empty when there is no range.
ClassBodyOf(text, range) ==
  IF range = <<0, 0>> THEN <<>> ELSE SubSeq(text, range[1], range[2])

\* findLocalPhpDefinition for a static reference (lines 1210-1239): a method,
\* then a const named by the member in the body of the class; when the class is
\* not in the document or its body has neither, the function goes on with the
\* declarations named by reference.word, which is the member.
findLocalPhpStaticDefinition(uri, lines, reference) ==
  LET text == GetText(lines)
      resolved == resolvePhpClassTokenInDocument(lines, reference.classToken)
      resolvedClass == IF resolved # <<>> THEN resolved ELSE reference.classToken
      last == AfterLast(resolvedClass, "\\")
      className == IF last = <<>> THEN "" ELSE last[1]
  IN IF reference.word = <<>> \/ className = "" THEN <<>>
     ELSE The({ The({ IF range # <<0, 0>> /\ methodMatch # 0
                      THEN <<Location(uri, range[1] + methodMatch - 1)>>
                      ELSE IF range # <<0, 0>> /\ constMatch # 0
                      THEN <<Location(uri, range[1] + constMatch - 1)>>
                      ELSE findLocalPhpDefinition(uri, lines, reference) :
                      methodMatch \in {FirstDeclarationOf("function",
                                         ClassBodyOf(text, range), reference.member)},
                      constMatch \in {FirstDeclarationOf("const",
                                        ClassBodyOf(text, range), reference.member)} }) :
                range \in {findPhpClassMemberRange(text, className)} })

\* The candidate keys of a static reference: the resolved class, then its last
\* segment.
StaticCandidates(resolvedClass, member) ==
  << resolvedClass \o <<"::", member>>, AfterLast(resolvedClass, "\\") \o <<"::", member>> >>

\* resolvePhpReferenceFromIndex(document, position, reference) for a static
\* reference (lines 1243-1254), falling through to the plain lookup of the word
\* (lines 1272-1277).
resolvePhpStaticReferenceFromIndexShortFirst(index, lines, reference) ==
  The({ IF MapGet(index, candidates[2]) # <<>> THEN index[candidates[2]]
        ELSE IF MapGet(index, candidates[1]) # <<>> THEN index[candidates[1]]
        ELSE resolvePhpReferenceFromIndex(index, reference) :
        candidates \in {StaticCandidates(
                          resolvePhpClassTokenInDocument(lines, reference.classToken),
                          reference.member)} })
resolvePhpStaticReferenceFromIndex(index, lines, reference) ==
  The({ The({ IF hit # 0 THEN index[candidates[hit]]
              ELSE resolvePhpReferenceFromIndex(index, reference) :
              hit \in {FirstKeyWithLocations(index, candidates)} }) :
        candidates \in {StaticCandidates(
                          resolvePhpClassTokenInDocument(lines, reference.classToken),
                          reference.member)} })

\* A static reference C::m of a document is resolved from the index.
ResolveStatic(lines, n, c) ==
  /\ n \in 1..Len(lines)
  /\ c \in 1..Len(lines[n])
  /\ \E reference \in {getPhpReferenceAtPosition(lines, n, c)} :
       /\ reference.ok /\ reference.kind = "static"
       /\ definitionRequest' =
            [stage |-> "done", uri |-> "", text |-> lines, kind |-> "static",
             word |-> reference.word,
             result |-> resolvePhpStaticReferenceFromIndex(phpWorkspaceIndex, lines, reference),
             indexConsulted |-> TRUE]
  /\ UNCHANGED << serviceVars, otherIndexVars, indexScan, indexVars, indexedText, lastOp, updateHistory,
                  phpWorkspaceMembersCache, buildVars, phpIndexTimersByUri, timeouts,
                  disk, textDocuments, closedSince >>

\* A static reference C::m of document f is looked up in the document itself.
FindLocalStatic(f, lines, n, c) ==
  /\ n \in 1..Len(lines)
  /\ c \in 1..Len(lines[n])
  /\ \E reference \in {getPhpReferenceAtPosition(lines, n, c)} :
       /\ reference.ok /\ reference.kind = "static"
       /\ definitionRequest' =
            [stage |-> "done", uri |-> f, text |-> lines, kind |-> "staticLocal",
             word |-> reference.word,
             result |-> findLocalPhpStaticDefinition(f, lines, reference),
             indexConsulted |-> FALSE]
  /\ UNCHANGED << serviceVars, otherIndexVars, indexScan, indexVars, indexedText, lastOp, updateHistory,
                  phpWorkspaceMembersCache, buildVars, phpIndexTimersByUri, timeouts,
                  disk, textDocuments, closedSince >>

UpdateFileFallback == \E f \in Files, text \in FallbackTexts : UpdateFile(f, text, "php")

ResolveStaticCall ==
  \E lines \in StaticTexts :
    \E n \in 1..Len(lines) :
      \E c \in 1..Len(lines[n]) : ResolveStatic(lines, n, c)

FindLocalStaticCall ==
  \E f \in Files, lines \in LocalStaticTexts :
    \E n \in 1..Len(lines) :
      \E c \in 1..Len(lines[n]) : FindLocalStatic(f, lines, n, c)

NextLocalStatic == UpdateFileFallback \/ DeleteFileCall \/ FindLocalStaticCall

SpecLocalStatic == Init /\ [][NextLocalStatic]_vars

NextFallback == UpdateFileFallback \/ DeleteFileCall \/ ResolveStaticCall

SpecFallback == Init /\ [][NextFallback]_vars

-----------------------------------------------------------------------------
(* The full build, the re-index timers and the editor events *)

\* The delays of scheduleIndexUpdate for open/save and for change events.
IndexDelayOpenSave == 0
IndexDelayChange == 1250

EventTexts == {TextFunctionF, TextClassF, TextNoSymbols}

\* The positions (line, character) of definition requests: on a declared name, on a
\* call and on the name of a const.
Positions == { <<1, 2>>, <<2, 1>>, <<3, 2>> }

\* if (phpWorkspaceIndexBuilding) return phpWorkspaceIndexBuilding;
BuildIsPendingNever(building) == FALSE
BuildIsPending(building) == building.token # "null"

\* ensurePhpWorkspaceIndex(): joins the pending build or starts a scan, which
\* runs to its first await (findFiles).
ensurePhpWorkspaceIndex ==
  IF BuildIsPending(phpWorkspaceIndexBuilding)
  THEN UNCHANGED << serviceVars, phpWorkspaceIndexBuilding, scansStarted, scansActive, deletedSince >>
  ELSE /\ scansStarted < MaxScans
       /\ phpWorkspaceIndexBuilding' = [token |-> "pending", phase |-> "findFiles", uris |-> <<>>]
       /\ scansStarted' = scansStarted + 1
       /\ scansActive' = scansActive + 1
       /\ deletedSince' = [f \in Files |->
                             IF deletedSince[f] = "deleted" THEN "scanning" ELSE deletedSince[f]]

\* The scan has ended with `outcome` and the finally callback has cleared the token;
\* every call waiting for the build continues on the index as it is now.
FinishBuild(outcome) ==
  /\ phpWorkspaceIndexBuilding' = Idle
  /\ scansActive' = scansActive - 1
  /\ callers' = [c \in Callers |-> IF callers[c] = "waiting" THEN outcome ELSE callers[c]]
  /\ definitionRequest' =
       IF definitionRequest.stage = "awaitIndex"
       THEN [definitionRequest EXCEPT
               !.stage = "done",
               !.result = IF outcome = "resolved"
                          THEN resolvePhpReferenceFromIndex(phpWorkspaceIndex', definitionRequest)
                          ELSE <<>>]
       ELSE definitionRequest
  /\ deletedSince' = [f \in Files |->
                        IF deletedSince[f] = "scanning"
                        THEN (IF outcome = "resolved" THEN "rebuilt" ELSE "deleted")
                        ELSE deletedSince[f]]

\* The files findFiles returns, in the orders it may return them.
Enumerations ==
  LET present == {f \in Files : disk[f] # Absent}
  IN {s \in UNION {[1..n -> present] : n \in 0..Cardinality(present)} :
        /\ Len(s) = Cardinality(present)
        /\ \A i, j \in 1..Len(s) : i # j => s[i] # s[j]}

\* A call of ensurePhpWorkspaceIndex() by one of the providers or commands.
EnsureCall(c) ==
  /\ callers[c] # "waiting"
  /\ callers' = [callers EXCEPT ![c] = "waiting"]
  /\ ensurePhpWorkspaceIndex
  /\ UNCHANGED << serviceVars, otherIndexVars, indexScan, indexVars, phpWorkspaceMembersCache, editorVars, lastOp, updateHistory,
                  indexedText >>

\* A caller whose call has settled takes the result.
CallerReturns(c) ==
  /\ callers[c] \in {"resolved", "rejected"}
  /\ callers' = [callers EXCEPT ![c] = "idle"]
  /\ UNCHANGED << serviceVars, otherIndexVars, indexScan, indexVars, phpWorkspaceMembersCache, editorVars, lastOp, updateHistory,
                  indexedText, phpWorkspaceIndexBuilding, scansStarted, scansActive,
                  deletedSince >>

\* await vscode.workspace.findFiles(include, exclude) resolves.
BuildFindFiles ==
  /\ phpWorkspaceIndexBuilding.phase = "findFiles"
  /\ UNCHANGED << serviceVars, otherIndexVars, indexVars, phpWorkspaceMembersCache, phpIndexTimersByUri, timeouts, disk, textDocuments,
                  closedSince, lastOp, updateHistory, indexedText, scansStarted >>
  /\ \E uris \in Enumerations :
       /\ indexScan' = IF \E c \in Callers : callers[c] = "waiting"
                       THEN [uris |-> uris, reads |-> <<>>]
                       ELSE NoIndexScan
       /\ IF uris = <<>>
          THEN FinishBuild("resolved")
          ELSE /\ phpWorkspaceIndexBuilding' =
                    [phpWorkspaceIndexBuilding EXCEPT !.phase = "files", !.uris = uris]
               /\ UNCHANGED << serviceVars, callers, definitionRequest, scansActive, deletedSince >>

\* await vscode.workspace.findFiles(include, exclude) rejects.
BuildFindFilesFails ==
  /\ phpWorkspaceIndexBuilding.phase = "findFiles"
  /\ UNCHANGED << serviceVars, otherIndexVars, indexScan, indexVars, phpWorkspaceMembersCache, phpIndexTimersByUri, timeouts, disk, textDocuments,
                  closedSince, lastOp, updateHistory, indexedText, scansStarted >>
  /\ FinishBuild("rejected")

\* The scan has handled file uri: `text` was read, or the read failed (Absent).
ScanHandles(uri, text) ==
  indexScan' = IF indexScan.uris = <<>>
               THEN indexScan
               ELSE [indexScan EXCEPT !.reads = Append(@, [uri |-> uri, text |-> text])]

\* The text openTextDocument(uri) gives: the open editor document, else the file.
CurrentText(f) == IF textDocuments[f] # Absent THEN textDocuments[f] ELSE disk[f]

\* The build moves past the file it has just handled.
BuildAdvance ==
  IF Tail(phpWorkspaceIndexBuilding.uris) = <<>>
  THEN FinishBuild("resolved")
  ELSE /\ phpWorkspaceIndexBuilding' =
            [phpWorkspaceIndexBuilding EXCEPT !.uris = Tail(@)]
       /\ UNCHANGED << serviceVars, callers, definitionRequest, scansActive, deletedSince >>

\* One turn of the loop: openTextDocument(uri) resolves and the file is indexed.
BuildIndexesFile ==
  /\ phpWorkspaceIndexBuilding.phase = "files"
  /\ LET uri == Head(phpWorkspaceIndexBuilding.uris)
     IN /\ CurrentText(uri) # Absent
        /\ IndexUpdate(uri, CurrentText(uri), "php")
        /\ closedSince' = [closedSince EXCEPT ![uri] = "no"]
        /\ ScanHandles(uri, CurrentText(uri))
        /\ BuildAdvance
  /\ UNCHANGED << serviceVars, otherIndexVars, phpWorkspaceMembersCache, phpIndexTimersByUri, timeouts, disk, textDocuments,
                  lastOp, updateHistory, scansStarted >>

\* One turn of the loop: openTextDocument(uri) throws (the file is gone or cannot
\* be read) and the catch block skips the file.
BuildSkipsFileAborts ==
  /\ phpWorkspaceIndexBuilding.phase = "files"
  /\ ScanHandles(Head(phpWorkspaceIndexBuilding.uris), Absent)
  /\ UNCHANGED << serviceVars, otherIndexVars, indexVars, phpWorkspaceMembersCache, phpIndexTimersByUri, timeouts,
                  disk, textDocuments, closedSince, lastOp, updateHistory, indexedText,
                  scansStarted >>
  /\ FinishBuild("rejected")
BuildSkipsFile ==
  /\ phpWorkspaceIndexBuilding.phase = "files"
  /\ ScanHandles(Head(phpWorkspaceIndexBuilding.uris), Absent)
  /\ UNCHANGED << serviceVars, otherIndexVars, indexVars, phpWorkspaceMembersCache, phpIndexTimersByUri, timeouts, disk, textDocuments,
                  closedSince, lastOp, updateHistory, indexedText, scansStarted >>
  /\ BuildAdvance

\* The file is deleted from the workspace; no handler of the extension runs.
FileDeletedOnDisk(f) ==
  /\ disk[f] # Absent
  /\ disk' = [disk EXCEPT ![f] = Absent]
  /\ deletedSince' = [deletedSince EXCEPT ![f] = "deleted"]
  /\ UNCHANGED << serviceVars, otherIndexVars, indexScan, indexVars, phpWorkspaceMembersCache, phpIndexTimersByUri, timeouts, textDocuments,
                  closedSince, definitionRequest, lastOp, updateHistory, indexedText,
                  phpWorkspaceIndexBuilding, callers, scansStarted, scansActive >>

\* scheduleIndexUpdate(document, delayMs): the pending timer of the document, if
\* any, is cleared and a new one is set.
scheduleIndexUpdate(timers, key, delayMs) == MapSet(timers, key, delayMs)

\* if (existingTimer) clearTimeout(existingTimer): the callback of the timer the
\* map holds for the document will not run.
clearTimeoutNot(live, timers, key) == live
clearTimeout(live, timers, key) ==
  IF key \in DOMAIN timers THEN [live EXCEPT ![key] = @ - 1] ELSE live

\* setTimeout(() => { ... }, delayMs): one more callback will run for the document.
setTimeout(live, key) == [live EXCEPT ![key] = @ + 1]

\* clearTimeout(existingTimer); phpIndexTimersByUri.delete(key)
ClearTimerNot(timers, key) == timers
ClearTimer(timers, key) == MapDelete(timers, key)

quietVars == << otherIndexVars, indexScan, phpWorkspaceMembersCache, lastOp, updateHistory, callers, scansStarted,
                scansActive, phpWorkspaceIndexBuilding >>

\* What no listener of an editor event touches.
eventQuietVars == << referenceVars, laravelRouteIndexBuilding, indexScan,
                     phpWorkspaceMembersCache, lastOp, updateHistory, callers, scansStarted,
                     scansActive, phpWorkspaceIndexBuilding >>

\* deleteLaravelRouteIndexForUri(uri) called with uri f.
RouteIndexDelete(f) ==
  /\ \E rs \in {deleteLaravelRouteIndexForUri(RouteWorkspace, f)} :
       /\ rs.version <= MaxRouteVersion
       /\ SetRouteWorkspace(rs)
  /\ routeIndexedText' = IF f \in RouteFiles THEN [routeIndexedText EXCEPT ![f] = Absent]
                         ELSE routeIndexedText

\* updateLaravelRouteIndexForDocument(document) called with a document of uri f.
RouteIndexUpdateAs(f, text, languageId) ==
  /\ \E rs \in {updateLaravelRouteIndexForDocument(RouteWorkspace,
                                                    Document(f, text, languageId))} :
       /\ rs.version <= MaxRouteVersion
       /\ SetRouteWorkspace(rs)
  /\ routeIndexedText' = IF f \in RouteFiles /\ languageId = "php"
                         THEN [routeIndexedText EXCEPT ![f] = text]
                         ELSE routeIndexedText

RouteIndexUpdate(f, text) == RouteIndexUpdateAs(f, text, "php")

\* onDidOpenTextDocument (both listeners)
OpenDocument(f) ==
  /\ textDocuments[f] = Absent /\ disk[f] # Absent
  /\ textDocuments' = [textDocuments EXCEPT ![f] = disk[f]]
  /\ phpIndexTimersByUri' = scheduleIndexUpdate(phpIndexTimersByUri, f, IndexDelayOpenSave)
  /\ timeouts' = setTimeout(clearTimeout(timeouts, phpIndexTimersByUri, f), f)
  /\ laravelIndexTimersByUri' =
       scheduleLaravelIndexUpdate(laravelIndexTimersByUri, f, IndexDelayOpenSave)
  /\ closedSince' = [closedSince EXCEPT ![f] = "no"]
  /\ UNCHANGED << serviceVars, indexVars, indexedText, disk, definitionRequest, deletedSince, routeIndexVars,
                  eventQuietVars >>

\* onDidChangeTextDocument (both listeners)
ChangeDocument(f, text) ==
  /\ textDocuments[f] # Absent /\ textDocuments[f] # text
  /\ textDocuments' = [textDocuments EXCEPT ![f] = text]
  /\ phpIndexTimersByUri' = scheduleIndexUpdate(phpIndexTimersByUri, f, IndexDelayChange)
  /\ timeouts' = setTimeout(clearTimeout(timeouts, phpIndexTimersByUri, f), f)
  /\ laravelIndexTimersByUri' =
       scheduleLaravelIndexUpdate(laravelIndexTimersByUri, f, IndexDelayChange)
  /\ UNCHANGED << serviceVars, indexVars, indexedText, disk, closedSince, definitionRequest, deletedSince,
                  routeIndexVars,
                  eventQuietVars >>

\* onDidSaveTextDocument (both listeners)
SaveDocument(f) ==
  /\ textDocuments[f] # Absent /\ disk[f] # textDocuments[f]
  /\ disk' = [disk EXCEPT ![f] = textDocuments[f]]
  /\ phpIndexTimersByUri' = scheduleIndexUpdate(phpIndexTimersByUri, f, IndexDelayOpenSave)
  /\ timeouts' = setTimeout(clearTimeout(timeouts, phpIndexTimersByUri, f), f)
  /\ laravelIndexTimersByUri' =
       scheduleLaravelIndexUpdate(laravelIndexTimersByUri, f, IndexDelayOpenSave)
  /\ deletedSince' = [deletedSince EXCEPT ![f] = "no"]
  /\ UNCHANGED << serviceVars, indexVars, indexedText, textDocuments, closedSince, definitionRequest,
                  routeIndexVars,
                  eventQuietVars >>

\* onDidCloseTextDocument (both listeners)
CloseDocument(f) ==
  /\ textDocuments[f] # Absent
  /\ textDocuments' = [textDocuments EXCEPT ![f] = Absent]
  /\ phpIndexTimersByUri' = ClearTimer(phpIndexTimersByUri, f)
  /\ timeouts' = clearTimeout(timeouts, phpIndexTimersByUri, f)
  /\ IndexDelete(f)
  /\ laravelIndexTimersByUri' = ClearTimer(laravelIndexTimersByUri, f)
  /\ RouteIndexDelete(f)
  /\ closedSince' = [closedSince EXCEPT ![f] =
                       IF f \in DOMAIN phpIndexTimersByUri
                          /\ KeysWithLocationIn(phpWorkspaceIndex, f) # {}
                       THEN "closedWhilePending" ELSE "closed"]
  /\ UNCHANGED << serviceVars, disk, definitionRequest, deletedSince, eventQuietVars >>

\* The timer callback of scheduleIndexUpdate runs.
TimerFiresWithoutUpdate(f) ==
  /\ timeouts[f] > 0
  /\ timeouts' = [timeouts EXCEPT ![f] = @ - 1]
  /\ phpIndexTimersByUri' = MapDelete(phpIndexTimersByUri, f)
  /\ UNCHANGED << serviceVars, indexVars, indexedText, disk, textDocuments, closedSince, definitionRequest,
                  deletedSince, quietVars >>
TimerFires(f) ==
  /\ timeouts[f] > 0
  /\ timeouts' = [timeouts EXCEPT ![f] = @ - 1]
  /\ phpIndexTimersByUri' = MapDelete(phpIndexTimersByUri, f)
  /\ IndexUpdate(f, textDocuments[f], "php")
  /\ UNCHANGED << serviceVars, disk, textDocuments, closedSince, definitionRequest, deletedSince, quietVars >>

\* provideDefinition(document, position) for a position outside a route name.
ProvideDefinition(f, n, c) ==
  /\ textDocuments[f] # Absent
  /\ definitionRequest.stage # "awaitIndex"
  /\ n \in 1..Len(textDocuments[f]) /\ c \in 1..Len(textDocuments[f][n])
  /\ getLaravelRouteNameAtPosition(textDocuments[f], n, c) = ""
  /\ \E reference \in {getPhpReferenceAtPosition(textDocuments[f], n, c)} :
       /\ reference.ok /\ reference.kind = "plain"
       /\ \E local \in {findLocalPhpDefinition(f, textDocuments[f], reference)} :
            IF local # <<>>
            THEN /\ definitionRequest' =
                      [stage |-> "done", uri |-> f, text |-> textDocuments[f],
                       kind |-> reference.kind, word |-> reference.word,
                       result |-> local, indexConsulted |-> FALSE]
                 /\ UNCHANGED << serviceVars, phpWorkspaceIndexBuilding, scansStarted, scansActive,
                                 deletedSince >>
            ELSE /\ definitionRequest' =
                      [stage |-> "awaitIndex", uri |-> f, text |-> textDocuments[f],
                       kind |-> reference.kind, word |-> reference.word,
                       result |-> <<>>, indexConsulted |-> TRUE]
                 /\ ensurePhpWorkspaceIndex
  /\ UNCHANGED << serviceVars, otherIndexVars, indexScan, indexVars, indexedText, phpWorkspaceMembersCache, phpIndexTimersByUri, timeouts, disk,
                  textDocuments, closedSince, lastOp, updateHistory, callers >>

\* vscode.workspace.textDocuments.forEach((doc) => scheduleLaravelIndexUpdate(doc, 0))
LaravelTimersOfOpenDocuments(documents) ==
  LET open == {f \in Files : documents[f] # Absent /\ isLaravelRouteDocument(f)}
  IN [f \in open |-> IndexDelayOpenSave]

\* vscode.workspace.textDocuments.forEach((doc) => scheduleIndexUpdate(doc, 0))
TimersOfOpenDocuments(documents) ==
  LET open == {f \in Files : documents[f] # Absent}
  IN [f \in open |-> IndexDelayOpenSave]

\* The state after activate(): the first full build has been started (line 160)
\* and every document open in the editor has a re-index timer (line 513).
Activated(texts) ==
  /\ InitIndex
  /\ disk \in [Files -> texts]
  /\ textDocuments \in [Files -> texts \cup {Absent}]
  /\ \A f \in Files : textDocuments[f] \in {Absent, disk[f]}
  /\ phpIndexTimersByUri = TimersOfOpenDocuments(textDocuments)
  /\ timeouts = [f \in Files |-> IF textDocuments[f] # Absent THEN 1 ELSE 0]
  /\ phpWorkspaceIndexBuilding = [token |-> "pending", phase |-> "findFiles", uris |-> <<>>]
  /\ laravelIndexTimersByUri = LaravelTimersOfOpenDocuments(textDocuments)
  /\ laravelRouteIndexBuilding = [token |-> "pending", phase |-> "findFiles", uris |-> <<>>]
  /\ scansStarted = 1
  /\ scansActive = 1

InitActivated == Activated(EventTexts)

EnsureCalled == \E c \in Callers : EnsureCall(c)
CallerReturned == \E c \in Callers : CallerReturns(c)
FileDeleted == \E f \in Files : FileDeletedOnDisk(f)
DocumentOpened == \E f \in Files : OpenDocument(f)
DocumentChanged == \E f \in Files, text \in EventTexts : ChangeDocument(f, text)
DocumentSaved == \E f \in Files : SaveDocument(f)
DocumentClosed == \E f \in Files : CloseDocument(f)
TimerFired == \E f \in Files : TimerFires(f)
DefinitionRequested == \E f \in Files, p \in Positions : ProvideDefinition(f, p[1], p[2])

\* Full builds, their callers and deletions of files from the workspace.
NextBuild ==
  \/ EnsureCalled \/ CallerReturned
  \/ BuildFindFiles \/ BuildFindFilesFails \/ BuildIndexesFile \/ BuildSkipsFile
  \/ FileDeleted

SpecBuild == InitActivated /\ [][NextBuild]_vars

InterleavedDocumentChanged == \E text \in EventTexts : ChangeDocument("B", text)

\* Full builds awaited by one caller, with the editor events of file B and the
\* re-index timers between the reads of a build.
NextInterleaving ==
  \/ EnsureCall("c1") \/ CallerReturns("c1")
  \/ BuildFindFiles \/ BuildFindFilesFails \/ BuildIndexesFile \/ BuildSkipsFile
  \/ OpenDocument("B") \/ InterleavedDocumentChanged \/ CloseDocument("B") \/ TimerFired

SpecInterleaving == InitActivated /\ [][NextInterleaving]_vars

\* Editor events, re-index timers and the build started by activate().
NextEvents ==
  \/ DocumentOpened \/ DocumentChanged \/ DocumentSaved \/ DocumentClosed \/ TimerFired
  \/ BuildFindFiles \/ BuildFindFilesFails \/ BuildIndexesFile \/ BuildSkipsFile

SpecEvents == InitActivated /\ [][NextEvents]_vars

\* Editor events and re-index timers alone.  An event is taken only while the
\* version counter has room for the updates of all the timers then pending, so
\* that the events of a behaviour stop; a timer that is due runs, which is the
\* weak fairness of its callback.
RoomFor(pending, extra) ==
  phpWorkspaceIndexVersion + extra + 2 * Cardinality(pending) <= MaxVersion

DebounceOpened ==
  \E f \in Files : RoomFor(DOMAIN phpIndexTimersByUri \cup {f}, 0) /\ OpenDocument(f)

DebounceChanged ==
  \E f \in Files, text \in EventTexts :
    RoomFor(DOMAIN phpIndexTimersByUri \cup {f}, 0) /\ ChangeDocument(f, text)

DebounceSaved ==
  \E f \in Files : RoomFor(DOMAIN phpIndexTimersByUri \cup {f}, 0) /\ SaveDocument(f)

DebounceClosed ==
  \E f \in Files : RoomFor(DOMAIN phpIndexTimersByUri \ {f}, 1) /\ CloseDocument(f)

NextDebounce ==
  DebounceOpened \/ DebounceChanged \/ DebounceSaved \/ DebounceClosed \/ TimerFired

SpecDebounce ==
  InitActivated /\ [][NextDebounce]_vars /\ \A f \in Files : WF_vars(TimerFires(f))

\* Definition requests on the open documents, the re-index timers set by activate()
\* and the builds the requests wait for.
NextDefinition ==
  \/ DefinitionRequested \/ TimerFired
  \/ BuildFindFiles \/ BuildFindFilesFails \/ BuildIndexesFile \/ BuildSkipsFile

SpecDefinition == InitActivated /\ [][NextDefinition]_vars

-----------------------------------------------------------------------------
(* The build of the reference index and its callers *)

ReferenceTexts == {TextFunctionF, TextNoSymbols, TextCalls}

\* The open documents whose current text is the text updatePhpIndexForDocument
\* indexed last, with that text.
IndexedOpenDocuments ==
  [f \in Files |-> IF textDocuments[f] # Absent /\ indexedText[f] = textDocuments[f]
                   THEN textDocuments[f] ELSE Absent]

\* ensurePhpWorkspaceReferenceIndex() called by c, up to its first await: it joins
\* the pending build, returns at once when the index is current, or clears the
\* buckets and starts a scan.
ensurePhpWorkspaceReferenceIndex(c) ==
  IF phpWorkspaceReferenceIndexBuilding.token # "null"
  THEN /\ referenceCallers' = [referenceCallers EXCEPT
                                 ![c] = [state |-> "waiting", after |-> IndexedOpenDocuments]]
       /\ UNCHANGED << serviceVars, phpWorkspaceReferenceIndex, phpWorkspaceReferenceIndexVersion,
                       phpWorkspaceReferenceIndexBuilding, referenceScan >>
  ELSE IF ReferenceIndexIsCurrent(phpWorkspaceReferenceIndexVersion, phpWorkspaceIndexVersion)
  THEN /\ referenceCallers' = [referenceCallers EXCEPT
                                 ![c] = [state |-> "resolved", after |-> IndexedOpenDocuments]]
       /\ UNCHANGED << serviceVars, phpWorkspaceReferenceIndex, phpWorkspaceReferenceIndexVersion,
                       phpWorkspaceReferenceIndexBuilding, referenceScan >>
  ELSE /\ referenceCallers' = [referenceCallers EXCEPT
                                 ![c] = [state |-> "waiting", after |-> IndexedOpenDocuments]]
       /\ phpWorkspaceReferenceIndex' = EmptyMap
       /\ phpWorkspaceReferenceIndexBuilding' =
            [token |-> "pending", phase |-> "findFiles", uris |-> <<>>]
       /\ referenceScan' = NoScan
       /\ UNCHANGED phpWorkspaceReferenceIndexVersion

symbolVars == << indexVars, phpWorkspaceMembersCache, phpWorkspaceIndexBuilding,
                 phpIndexTimersByUri, timeouts, disk, textDocuments, callers, definitionRequest, lastOp,
                 updateHistory, indexedText, closedSince, deletedSince, scansStarted,
                 scansActive, indexScan >>

\* resolveCodeLens calls ensurePhpWorkspaceReferenceIndex().
ReferenceEnsureCall(c) ==
  /\ referenceCallers[c].state = "idle"
  /\ ensurePhpWorkspaceReferenceIndex(c)
  /\ UNCHANGED << serviceVars, symbolVars, routeVars >>

\* resolveCodeLens continues after the await and reads the buckets.
ReferenceCallerReturns(c) ==
  /\ referenceCallers[c].state \in {"resolved", "rejected"}
  /\ referenceCallers' = [referenceCallers EXCEPT ![c] = NoCall]
  /\ UNCHANGED << serviceVars, symbolVars, routeVars, phpWorkspaceReferenceIndex,
                  phpWorkspaceReferenceIndexVersion, phpWorkspaceReferenceIndexBuilding,
                  referenceScan >>

\* The scan has ended and the finally callback has cleared the token; the calls
\* waiting for the build settle with its outcome.
ReferenceFinishBuild(outcome) ==
  /\ phpWorkspaceReferenceIndexBuilding' = Idle
  /\ referenceCallers' = [c \in ReferenceCallers |->
                            IF referenceCallers[c].state = "waiting"
                            THEN [referenceCallers[c] EXCEPT !.state = outcome]
                            ELSE referenceCallers[c]]

\* phpWorkspaceReferenceIndexVersion = phpWorkspaceIndexVersion, the last statement
\* of the scan.
RecordReferenceVersion ==
  phpWorkspaceReferenceIndexVersion' = phpWorkspaceIndexVersion

\* await vscode.workspace.findFiles(include, exclude) resolves.
ReferenceBuildFindFiles ==
  /\ phpWorkspaceReferenceIndexBuilding.phase = "findFiles"
  /\ UNCHANGED << serviceVars, symbolVars, routeVars, phpWorkspaceReferenceIndex, referenceScan >>
  /\ \E uris \in Enumerations :
       IF uris = <<>>
       THEN RecordReferenceVersion /\ ReferenceFinishBuild("resolved")
       ELSE /\ phpWorkspaceReferenceIndexBuilding' =
                 [phpWorkspaceReferenceIndexBuilding EXCEPT !.phase = "files", !.uris = uris]
            /\ UNCHANGED << serviceVars, phpWorkspaceReferenceIndexVersion, referenceCallers >>

\* await vscode.workspace.findFiles(include, exclude) rejects.
ReferenceBuildFindFilesFails ==
  /\ phpWorkspaceReferenceIndexBuilding.phase = "findFiles"
  /\ UNCHANGED << serviceVars, symbolVars, routeVars, phpWorkspaceReferenceIndex,
                  phpWorkspaceReferenceIndexVersion, referenceScan >>
  /\ ReferenceFinishBuild("rejected")

\* The scan moves past the file it has just handled.
ReferenceBuildAdvance ==
  IF Tail(phpWorkspaceReferenceIndexBuilding.uris) = <<>>
  THEN RecordReferenceVersion /\ ReferenceFinishBuild("resolved")
  ELSE /\ phpWorkspaceReferenceIndexBuilding' =
            [phpWorkspaceReferenceIndexBuilding EXCEPT !.uris = Tail(@)]
       /\ UNCHANGED << serviceVars, phpWorkspaceReferenceIndexVersion, referenceCallers >>

\* One turn of the loop: openTextDocument(uri) resolves and the references of the
\* document are pushed into their buckets.
ReferenceBuildReadsFile ==
  /\ phpWorkspaceReferenceIndexBuilding.phase = "files"
  /\ \E uri \in {Head(phpWorkspaceReferenceIndexBuilding.uris)} :
       /\ CurrentText(uri) # Absent
       /\ phpWorkspaceReferenceIndex' =
            InsertReferences(phpWorkspaceReferenceIndex,
                             ReferencesTable[uri][CurrentText(uri)], 1)
       /\ referenceScan' = Append(referenceScan, [uri |-> uri, text |-> CurrentText(uri),
                                                   version |-> phpWorkspaceIndexVersion])
  /\ ReferenceBuildAdvance
  /\ UNCHANGED << serviceVars, symbolVars, routeVars >>

\* One turn of the loop: openTextDocument(uri) throws and the catch block skips the
\* file; a document open in the editor is always returned.
ReferenceBuildSkipsFile ==
  /\ phpWorkspaceReferenceIndexBuilding.phase = "files"
  /\ textDocuments[Head(phpWorkspaceReferenceIndexBuilding.uris)] = Absent
  /\ ReferenceBuildAdvance
  /\ UNCHANGED << serviceVars, symbolVars, routeVars, phpWorkspaceReferenceIndex, referenceScan >>

ReferenceEnsureCalled == \E c \in ReferenceCallers : ReferenceEnsureCall(c)
ReferenceCallerReturned == \E c \in ReferenceCallers : ReferenceCallerReturns(c)
ReferenceDocumentChanged == \E text \in ReferenceTexts : ChangeDocument("B", text)

\* CodeLens resolutions, the reference builds they start, edits of the open
\* documents and their re-index timers.
NextReference ==
  \/ ReferenceEnsureCalled \/ ReferenceCallerReturned
  \/ ReferenceBuildFindFiles \/ ReferenceBuildFindFilesFails
  \/ ReferenceBuildReadsFile \/ ReferenceBuildSkipsFile
  \/ TimerFired

InitReference == Activated(ReferenceTexts)

SpecReference == InitReference /\ [][NextReference]_vars

\* One CodeLens at a time, edits of file B, the re-index timers and the reference
\* builds.
NextStaleness ==
  \/ ReferenceEnsureCall("r1") \/ ReferenceCallerReturns("r1")
  \/ ReferenceBuildFindFiles \/ ReferenceBuildFindFilesFails
  \/ ReferenceBuildReadsFile \/ ReferenceBuildSkipsFile
  \/ ReferenceDocumentChanged \/ TimerFired

SpecStaleness == InitReference /\ [][NextStaleness]_vars

-----------------------------------------------------------------------------
(* The build of the route index and its timers *)

\* The timer callback of scheduleLaravelIndexUpdate runs.
LaravelTimerFiresCancelsBoth(f) ==
  /\ f \in DOMAIN laravelIndexTimersByUri
  /\ laravelIndexTimersByUri' = MapDelete(laravelIndexTimersByUri, f)
  /\ RouteIndexUpdate(f, textDocuments[f])
  /\ phpIndexTimersByUri' = MapDelete(phpIndexTimersByUri, f)
  /\ timeouts' = [timeouts EXCEPT ![f] = 0]
  /\ UNCHANGED << serviceVars, referenceVars, laravelRouteIndexBuilding, indexVars,
                  phpWorkspaceMembersCache, phpWorkspaceIndexBuilding, disk, textDocuments,
                  callers, definitionRequest, lastOp, updateHistory, indexedText,
                  closedSince, deletedSince, scansStarted, scansActive, indexScan >>
LaravelTimerFires(f) ==
  /\ f \in DOMAIN laravelIndexTimersByUri
  /\ laravelIndexTimersByUri' = MapDelete(laravelIndexTimersByUri, f)
  /\ RouteIndexUpdate(f, textDocuments[f])
  /\ UNCHANGED << serviceVars, referenceVars, laravelRouteIndexBuilding, symbolVars >>

\* ensureLaravelRouteIndex() called by a provider: joins the pending build or
\* starts a scan, which runs to its first await (findFiles).
RouteEnsureCall ==
  /\ laravelRouteIndexBuilding' =
       IF BuildIsPending(laravelRouteIndexBuilding)
       THEN laravelRouteIndexBuilding
       ELSE [token |-> "pending", phase |-> "findFiles", uris |-> <<>>]
  /\ UNCHANGED << serviceVars, referenceVars, routeIndexVars, laravelIndexTimersByUri, symbolVars >>

\* The files findFiles('routes/**/*.php') returns, in the orders it may return them.
RouteEnumerations ==
  LET present == {f \in Files : isLaravelRouteDocument(f) /\ disk[f] # Absent}
  IN {s \in UNION {[1..n -> present] : n \in 0..Cardinality(present)} :
        /\ Len(s) = Cardinality(present)
        /\ \A i, j \in 1..Len(s) : i # j => s[i] # s[j]}

\* await vscode.workspace.findFiles(include, exclude) resolves.
RouteBuildFindFiles ==
  /\ laravelRouteIndexBuilding.phase = "findFiles"
  /\ \E uris \in RouteEnumerations :
       laravelRouteIndexBuilding' =
         IF uris = <<>> THEN Idle
         ELSE [laravelRouteIndexBuilding EXCEPT !.phase = "files", !.uris = uris]
  /\ UNCHANGED << serviceVars, referenceVars, routeIndexVars, laravelIndexTimersByUri, symbolVars >>

\* await vscode.workspace.findFiles(include, exclude) rejects.
RouteBuildFindFilesFails ==
  /\ laravelRouteIndexBuilding.phase = "findFiles"
  /\ laravelRouteIndexBuilding' = Idle
  /\ UNCHANGED << serviceVars, referenceVars, routeIndexVars, laravelIndexTimersByUri, symbolVars >>

\* The route build moves past the file it has just handled.
RouteBuildAdvance ==
  laravelRouteIndexBuilding' =
    IF Tail(laravelRouteIndexBuilding.uris) = <<>> THEN Idle
    ELSE [laravelRouteIndexBuilding EXCEPT !.uris = Tail(@)]

\* One turn of the loop: openTextDocument(uri) resolves and the file is indexed.
RouteBuildReadsFile ==
  /\ laravelRouteIndexBuilding.phase = "files"
  /\ \E uri \in {Head(laravelRouteIndexBuilding.uris)} :
       /\ CurrentText(uri) # Absent
       /\ RouteIndexUpdate(uri, CurrentText(uri))
  /\ RouteBuildAdvance
  /\ UNCHANGED << serviceVars, referenceVars, laravelIndexTimersByUri, symbolVars >>

\* One turn of the loop: openTextDocument(uri) throws and the file is skipped.
RouteBuildSkipsFile ==
  /\ laravelRouteIndexBuilding.phase = "files"
  /\ RouteBuildAdvance
  /\ UNCHANGED << serviceVars, referenceVars, routeIndexVars, laravelIndexTimersByUri, symbolVars >>

LaravelTimerFired == \E f \in Files : LaravelTimerFires(f)
RouteDocumentChanged == \E text \in RouteTexts : ChangeDocument("B", text)
RouteDocumentClosed == CloseDocument("B")

InitRoutes == Activated({TextRoutes})

\* The two indices side by side: the builds and timers of both, calls of
\* ensureLaravelRouteIndex, edits and the close of the route file.
NextIndependence ==
  \/ BuildFindFiles \/ BuildFindFilesFails \/ BuildIndexesFile \/ BuildSkipsFile
  \/ TimerFired
  \/ RouteEnsureCall
  \/ RouteBuildFindFiles \/ RouteBuildFindFilesFails
  \/ RouteBuildReadsFile \/ RouteBuildSkipsFile
  \/ LaravelTimerFired
  \/ RouteDocumentChanged \/ RouteDocumentClosed

SpecIndependence == InitRoutes /\ [][NextIndependence]_vars

\* updateLaravelRouteIndexForDocument and deleteLaravelRouteIndexForUri called
\* directly, with documents under routes/ and elsewhere.
RouteCallFiles == Files \cup RouteFiles

RouteUpdateFile(f, text, languageId) ==
  /\ RouteIndexUpdateAs(f, text, languageId)
  /\ lastOp' = Record(Op("routeUpdate", f, text, languageId))
  /\ UNCHANGED << serviceVars, referenceVars, laravelRouteIndexBuilding, laravelIndexTimersByUri,
                  indexVars, phpWorkspaceMembersCache, phpWorkspaceIndexBuilding,
                  phpIndexTimersByUri, timeouts, disk, textDocuments, callers,
                  definitionRequest, updateHistory, indexedText, closedSince, deletedSince,
                  scansStarted, scansActive, indexScan >>

RouteDeleteFile(f) ==
  /\ RouteIndexDelete(f)
  /\ lastOp' = Record(Op("routeDelete", f,
                         IF f \in RouteFiles THEN routeIndexedText[f] ELSE Absent, ""))
  /\ UNCHANGED << serviceVars, referenceVars, laravelRouteIndexBuilding, laravelIndexTimersByUri,
                  indexVars, phpWorkspaceMembersCache, phpWorkspaceIndexBuilding,
                  phpIndexTimersByUri, timeouts, disk, textDocuments, callers,
                  definitionRequest, updateHistory, indexedText, closedSince, deletedSince,
                  scansStarted, scansActive, indexScan >>

RouteUpdateFileCall ==
  \E f \in RouteCallFiles, text \in RouteTexts, languageId \in LanguageIds :
    RouteUpdateFile(f, text, languageId)

RouteDeleteFileCall == \E f \in RouteCallFiles : RouteDeleteFile(f)

NextRoutes == RouteUpdateFileCall \/ RouteDeleteFileCall

SpecRoutes == Init /\ [][NextRoutes]_vars

-----------------------------------------------------------------------------
(* The Debouncer (src/lib/debouncer.js) *)

DebounceKeys == {"k1", "k2"}

\* The actions registered: f returns a value, g throws (or returns a promise
\* that rejects).
DebounceFns == {"f", "g"}

Throwing == {"g"}

\* The number of calls made on the Debouncer.
MaxCalls == 3

\* A timer handle is the position in the log of the call that set the timer.
Handles == 1..(2 * MaxCalls)

CallOps == {"debounce", "debounceAsync", "cancel", "cancelAll"}

CallsMade == Cardinality({i \in 1..Len(debounceLog) : debounceLog[i].op \in CallOps})

Event(op, key, fn) == [op |-> op, key |-> key, fn |-> fn]

\* if (this.timers.has(key)) clearTimeout(this.timers.get(key));
ClearTimerOf(key) ==
  IF key \in DOMAIN debouncerTimers THEN liveTimeouts \ {debouncerTimers[key]} ELSE liveTimeouts

\* const timer = setTimeout(...); this.timers.set(key, timer); for either way of
\* registering an action.
Register(op, key, fn, live) ==
  /\ debounceLog' = Append(debounceLog, Event(op, key, fn))
  /\ liveTimeouts' = live \cup {Len(debounceLog) + 1}
  /\ debouncerTimers' = MapSet(debouncerTimers, key, Len(debounceLog) + 1)
  /\ UNCHANGED << settledPromises, reflectionVars, indexVars, otherIndexVars,
                  indexScan, indexedText, lastOp, updateHistory, phpWorkspaceMembersCache,
                  buildVars, editorVars >>

\* debounce(key, fn)
DebounceKeepsTimer(key, fn) ==
  /\ CallsMade < MaxCalls
  /\ Register("debounce", key, fn, liveTimeouts)

Debounce(key, fn) ==
  /\ CallsMade < MaxCalls
  /\ Register("debounce", key, fn, ClearTimerOf(key))

\* debounceAsync(key, fn): the promise it returns is the one of handle
\* Len(debounceLog) + 1.
DebounceAsync(key, fn) ==
  /\ CallsMade < MaxCalls
  /\ Register("debounceAsync", key, fn, ClearTimerOf(key))

\* cancel(key)
Cancel(key) ==
  /\ CallsMade < MaxCalls
  /\ debounceLog' = Append(debounceLog, Event("cancel", key, ""))
  /\ liveTimeouts' = ClearTimerOf(key)
  /\ debouncerTimers' = MapDelete(debouncerTimers, key)
  /\ UNCHANGED << settledPromises, reflectionVars, indexVars, otherIndexVars,
                  indexScan, indexedText, lastOp, updateHistory, phpWorkspaceMembersCache,
                  buildVars, editorVars >>

\* cancelAll()
CancelAll ==
  /\ CallsMade < MaxCalls
  /\ debounceLog' = Append(debounceLog, Event("cancelAll", "", ""))
  /\ liveTimeouts' = liveTimeouts \ {debouncerTimers[k] : k \in DOMAIN debouncerTimers}
  /\ debouncerTimers' = EmptyMap
  /\ UNCHANGED << settledPromises, reflectionVars, indexVars, otherIndexVars,
                  indexScan, indexedText, lastOp, updateHistory, phpWorkspaceMembersCache,
                  buildVars, editorVars >>

\* The callback of the timer with handle h: this.timers.delete(key), then fn; for
\* debounceAsync the promise is resolved with the result of fn, unless fn throws
\* or rejects, which ends the callback before resolve.
DebounceTimerFires(h) ==
  /\ h \in liveTimeouts
  /\ liveTimeouts' = liveTimeouts \ {h}
  /\ debouncerTimers' = MapDelete(debouncerTimers, debounceLog[h].key)
  /\ debounceLog' = Append(debounceLog, Event("run", debounceLog[h].key, debounceLog[h].fn))
  /\ settledPromises' =
       IF debounceLog[h].op = "debounceAsync" /\ debounceLog[h].fn \notin Throwing
       THEN settledPromises \cup {h} ELSE settledPromises
  /\ UNCHANGED << reflectionVars, indexVars, otherIndexVars,
                  indexScan, indexedText, lastOp, updateHistory, phpWorkspaceMembersCache,
                  buildVars, editorVars >>

DebounceCall == \E key \in DebounceKeys, fn \in DebounceFns : Debounce(key, fn)

DebounceAsyncCall == \E key \in DebounceKeys, fn \in DebounceFns : DebounceAsync(key, fn)

CancelCall == \E key \in DebounceKeys : Cancel(key)

DebounceTimerElapses == \E h \in Handles : DebounceTimerFires(h)

NextDebouncer ==
  \/ DebounceCall
  \/ DebounceAsyncCall
  \/ CancelCall
  \/ CancelAll
  \/ DebounceTimerElapses

SpecDebouncer == Init /\ [][NextDebouncer]_vars

\* The host runs the callback of every timer that is not cleared.
SpecDebouncerFair ==
  Init /\ [][NextDebouncer]_vars /\ \A h \in Handles : WF_vars(DebounceTimerFires(h))

-----------------------------------------------------------------------------
(* The built-in signature lookup: getBuiltInPhpFunctionSignature and
   runPhpReflectionForFunction *)

\* The values of the setting php.executablePath: an installed interpreter, a
\* path with no executable, and the empty string.
PhpPaths == {"php", "php-missing", ""}

InstalledPhpPaths == {"php"}

FunctionNames == {"strlen", "nosuch"}

\* The pieces the process can print: the two halves of a JSON object, the JSON
\* literal null, and text that is not JSON.
Chunks == {"{", "}", "null", "Warning"}

MaxChunks == 2

\* JSON.parse(text) of the trimmed output, inside try/catch: the object, or null
\* for an empty output, for the literal null and for a parse error.
ParseOutput(stdout) == IF stdout = <<"{", "}">> THEN "object" ELSE "null"

\* resolve(value): settles the promise if it is pending, else does nothing.
Resolve(r, value, by) ==
  IF r.promise = "pending"
  THEN [r EXCEPT !.promise = "resolved", !.payload = value, !.settles = @ + 1,
                 !.settledBy = by]
  ELSE r

\* The label built from a payload without parameters and return type:
\* `${functionName}(): mixed`.
BuiltInLabel(functionName) == <<functionName, "(", ")", ":", "mixed">>

\* runPhpReflectionForFunction(phpPath, functionName) up to the return of the
\* promise: spawn throws for an empty file name, inside the executor of the
\* promise, which rejects it; else the handlers and the deadline are set.
runPhpReflectionForFunction(phpPath, functionName) ==
  IF phpPath = ""
  THEN [NoLookup EXCEPT !.phase = "awaiting", !.phpPath = phpPath,
                        !.functionName = functionName, !.promise = "rejected",
                        !.settles = 1, !.settledBy = "spawn"]
  ELSE [NoLookup EXCEPT !.phase = "awaiting", !.phpPath = phpPath,
                        !.functionName = functionName, !.promise = "pending",
                        !.process = IF phpPath \in InstalledPhpPaths THEN "running"
                                    ELSE "failing",
                        !.timer = "armed"]

\* getBuiltInPhpFunctionSignature(functionName) up to its await: the cached
\* signature, or the start of the reflection query.
GetBuiltIn(phpPath, functionName) ==
  /\ reflection.phase \in {"none", "returned", "threw"}
  /\ reflection' =
       IF <<phpPath, functionName>> \in DOMAIN phpBuiltInFunctionSignatureCache
       THEN [NoLookup EXCEPT !.phase = "returned", !.phpPath = phpPath,
                             !.functionName = functionName,
                             !.result = phpBuiltInFunctionSignatureCache[<<phpPath, functionName>>]]
       ELSE runPhpReflectionForFunction(phpPath, functionName)
  /\ UNCHANGED << phpBuiltInFunctionSignatureCache, debouncerVars, indexVars, otherIndexVars,
                  indexScan, indexedText, lastOp, updateHistory, phpWorkspaceMembersCache,
                  buildVars, editorVars >>

ReflectionStep(r) ==
  /\ reflection' = r
  /\ UNCHANGED << phpBuiltInFunctionSignatureCache, debouncerVars, indexVars, otherIndexVars,
                  indexScan, indexedText, lastOp, updateHistory, phpWorkspaceMembersCache,
                  buildVars, editorVars >>

\* php.stdout.on('data', ...): stdout += d
ProcessData(chunk) ==
  /\ reflection.process \in {"running", "killed"}
  /\ Len(reflection.stdout) < MaxChunks
  /\ ReflectionStep([reflection EXCEPT !.stdout = Append(@, chunk)])

\* php.on('close', ...): resolve(JSON.parse(text)), or resolve(null)
ProcessClose ==
  /\ reflection.process \in {"running", "killed", "failed"}
  /\ ReflectionStep(Resolve([reflection EXCEPT !.process = "closed"],
                            ParseOutput(reflection.stdout), "close"))

\* php.on('error', () => resolve(null)): the executable could not be started.
ProcessError ==
  /\ reflection.process = "failing"
  /\ ReflectionStep(Resolve([reflection EXCEPT !.process = "failed"], "null", "error"))

\* The deadline of 1500 ms: php.kill() and resolve(null).
Deadline ==
  /\ reflection.timer = "armed"
  /\ ReflectionStep(Resolve([reflection EXCEPT
                               !.timer = "fired",
                               !.process = IF @ = "running" THEN "killed" ELSE @],
                            "null", "deadline"))

\* getBuiltInPhpFunctionSignature after its await: null without a payload, else
\* the signature, which is cached; the rejection of the promise is thrown.
GetBuiltInContinues ==
  /\ reflection.phase = "awaiting"
  /\ reflection.promise \in {"resolved", "rejected"}
  /\ \E cacheKey \in {<<reflection.phpPath, reflection.functionName>>} :
       IF reflection.promise = "rejected"
       THEN /\ reflection' = [reflection EXCEPT !.phase = "threw"]
            /\ UNCHANGED phpBuiltInFunctionSignatureCache
       ELSE IF reflection.payload = "null"
       THEN /\ reflection' = [reflection EXCEPT !.phase = "returned", !.result = <<>>]
            /\ UNCHANGED phpBuiltInFunctionSignatureCache
       ELSE /\ reflection' = [reflection EXCEPT !.phase = "returned",
                                                !.result = BuiltInLabel(reflection.functionName)]
            /\ phpBuiltInFunctionSignatureCache' =
                 MapSet(phpBuiltInFunctionSignatureCache, cacheKey,
                        BuiltInLabel(reflection.functionName))
  /\ UNCHANGED << debouncerVars, indexVars, otherIndexVars,
                  indexScan, indexedText, lastOp, updateHistory, phpWorkspaceMembersCache,
                  buildVars, editorVars >>

GetBuiltInCall == \E phpPath \in PhpPaths, functionName \in FunctionNames :
                    GetBuiltIn(phpPath, functionName)

ProcessDataArrives == \E chunk \in Chunks : ProcessData(chunk)

NextReflection ==
  \/ GetBuiltInCall
  \/ ProcessDataArrives
  \/ ProcessClose
  \/ ProcessError
  \/ Deadline
  \/ GetBuiltInContinues

SpecReflection == Init /\ [][NextReflection]_vars

-----------------------------------------------------------------------------
(* Properties of the reference index (specifications SpecStaleness, SpecReference) *)

\* The offsets of text at which the free function name is called.
CallSites(text, name) ==
  {i \in 1..Len(text) :
     /\ text[i] = name /\ Tok(text, i + 1) = "("
     /\ Tok(text, i - 1) \notin {"function", "new", "->", "::"}}

\* The CodeLenses of the declarations `function name(` in the open documents.
CodeLensesOf(name) ==
  {CodeLensData("function", name, "", g, i + 1) :
     <<g, i>> \in {p \in Files \X (1..12) :
                     /\ textDocuments[p[1]] # Absent
                     /\ Tok(GetText(textDocuments[p[1]]), p[2]) = "function"
                     /\ Tok(GetText(textDocuments[p[1]]), p[2] + 1) = name
                     /\ Tok(GetText(textDocuments[p[1]]), p[2] + 2) = "("}}

\* referenceCount: what resolveCodeLens computes from the buckets as they are.
ReferenceCount(data) ==
  resolvePhpReferenceLocationsForCodeLens(phpWorkspaceReferenceIndex, data)

Occurrences(locs, loc) == Cardinality({i \in 1..Len(locs) : locs[i] = loc})

SettlesResolved(c) ==
  referenceCallers[c].state # "resolved" /\ referenceCallers'[c].state = "resolved"

\* C11 as stated: when a call of ensurePhpWorkspaceReferenceIndex completes that was
\* made after the text of an open document was indexed by updateFile, and the
\* document still has that text, indexed and with no edit waiting for its timer,
\* referenceCount for function f holds the Location of every call of f in that
\* text exactly once.
ReferenceStalenessBound ==
  [][ \A c \in ReferenceCallers : SettlesResolved(c) =>
        \A g \in Files :
          (referenceCallers'[c].after[g] # Absent
             /\ textDocuments'[g] = referenceCallers'[c].after[g]
             /\ indexedText'[g] = textDocuments'[g]
             /\ g \notin DOMAIN phpIndexTimersByUri')
          => \A data \in CodeLensesOf("f")' :
               \A i \in CallSites(GetText(textDocuments'[g]), "f") :
                  Occurrences(ReferenceCount(data)', Location(g, i)) = 1 ]_vars

StartsReferenceEnsure(c) ==
  referenceCallers[c].state = "idle" /\ referenceCallers'[c].state # "idle"

ReferenceBuildEnds ==
  /\ phpWorkspaceReferenceIndexBuilding.token # "null"
  /\ phpWorkspaceReferenceIndexBuilding'.token = "null"

ReferenceBuildResolves ==
  /\ ReferenceBuildEnds
  /\ \E c \in ReferenceCallers :
       referenceCallers[c].state = "waiting" /\ referenceCallers'[c].state = "resolved"

\* The buckets a scan that read the documents of log leaves: under every key the
\* Locations of the references with that key, in the order they were read.
BucketsOf(log) ==
  LET refs == FlattenSeq([j \in 1..Len(log) |-> ReferencesTable[log[j].uri][log[j].text]])
      LocationsOf(k) == LET hits == SelectSeq(refs, LAMBDA r : r.key = k)
                        IN [i \in 1..Len(hits) |-> hits[i].location]
  IN [k \in {refs[i].key : i \in 1..Len(refs)} |-> LocationsOf(k)]

ReferenceStateUnchanged ==
  /\ phpWorkspaceReferenceIndex' = phpWorkspaceReferenceIndex
  /\ phpWorkspaceReferenceIndexVersion' = phpWorkspaceReferenceIndexVersion
  /\ phpWorkspaceReferenceIndexBuilding' = phpWorkspaceReferenceIndexBuilding

\* C12  Reference Index version gating: a call made while a build is pending
\* changes nothing and waits for that build, settling in the step in which it ends;
\* a call made when no build is pending and the recorded version equals the index
\* version changes nothing and returns at once; any other call empties the buckets
\* and starts a scan; a scan that completes has read every open document of the
\* workspace once, leaves exactly the references of the documents it read and
\* records the current index version, so that the two versions are equal.
ReferenceVersionGating ==
  [][ /\ \A c \in ReferenceCallers : StartsReferenceEnsure(c) =>
           IF phpWorkspaceReferenceIndexBuilding.token # "null"
           THEN ReferenceStateUnchanged /\ referenceCallers'[c].state = "waiting"
           ELSE IF phpWorkspaceReferenceIndexVersion = phpWorkspaceIndexVersion
           THEN ReferenceStateUnchanged /\ referenceCallers'[c].state = "resolved"
           ELSE /\ phpWorkspaceReferenceIndex' = EmptyMap
                /\ phpWorkspaceReferenceIndexBuilding'.token # "null"
                /\ referenceCallers'[c].state = "waiting"
      /\ ReferenceBuildResolves =>
           /\ phpWorkspaceReferenceIndexVersion' = phpWorkspaceIndexVersion'
           /\ phpWorkspaceReferenceIndex' = BucketsOf(referenceScan')
           /\ \A f \in Files :
                (disk[f] # Absent /\ textDocuments[f] # Absent)
                => Cardinality({j \in 1..Len(referenceScan') : referenceScan'[j].uri = f}) = 1
      /\ \A c \in ReferenceCallers : referenceCallers[c].state = "waiting" =>
           /\ phpWorkspaceReferenceIndexBuilding.token # "null"
           /\ ReferenceBuildEnds <=> referenceCallers'[c].state \in {"resolved", "rejected"}
           /\ ~ReferenceBuildEnds => referenceCallers'[c].state = "waiting"
    ]_vars

\* Witness of C12: after a build recorded a version and the index moved on, both
\* callers wait for one scan, which has read a document with references.
ReferenceVersionGatingWitness ==
  /\ \A c \in ReferenceCallers : referenceCallers[c].state = "waiting"
  /\ phpWorkspaceReferenceIndexVersion >= 0
  /\ phpWorkspaceReferenceIndexVersion < phpWorkspaceIndexVersion
  /\ phpWorkspaceReferenceIndexBuilding.phase = "files"
  /\ referenceScan # <<>>
  /\ phpWorkspaceReferenceIndex # EmptyMap

-----------------------------------------------------------------------------
(* Properties of definition requests (specification SpecDefinition) *)

\* The offsets of text at which a class, interface, trait or enum, a function or a
\* const named name is declared.
LocalDeclarations(text, name) ==
  {i \in 1..(Len(text) - 1) :
     \/ text[i] \in ClassKeywords /\ text[i + 1] = name
     \/ text[i] = "const" /\ text[i + 1] = name
     \/ /\ text[i] = "function"
        /\ \/ text[i + 1] = name /\ Tok(text, i + 2) = "("
           \/ text[i + 1] = "&" /\ Tok(text, i + 2) = name /\ Tok(text, i + 3) = "("}

-----------------------------------------------------------------------------
(* Properties of the full build (specification SpecBuild) *)

StartsEnsure(c) == callers[c] # "waiting" /\ callers'[c] = "waiting"

BuildEnds == phpWorkspaceIndexBuilding.token # "null" /\ phpWorkspaceIndexBuilding'.token = "null"

\* C8  Coalesced full build: at most one scan is in flight and the token is set
\* exactly while one is; a call made while a build is pending starts no scan and
\* completes in the step in which that build ends, resolved or rejected, and in no
\* other step; that step clears the token; a call made when the token is clear
\* starts a new scan.
CoalescedFullBuild ==
  [][ /\ scansActive' <= 1
      /\ (phpWorkspaceIndexBuilding'.token = "null") <=> (scansActive' = 0)
      /\ \A c \in Callers :
           /\ (StartsEnsure(c) /\ phpWorkspaceIndexBuilding.token # "null")
                => /\ scansStarted' = scansStarted
                   /\ phpWorkspaceIndexBuilding' = phpWorkspaceIndexBuilding
           /\ (StartsEnsure(c) /\ phpWorkspaceIndexBuilding.token = "null")
                => /\ scansStarted' = scansStarted + 1
                   /\ phpWorkspaceIndexBuilding'.token # "null"
           /\ callers[c] = "waiting"
                => /\ phpWorkspaceIndexBuilding.token # "null"
                   /\ BuildEnds <=> callers'[c] \in {"resolved", "rejected"}
                   /\ ~BuildEnds => callers'[c] = "waiting"
    ]_vars

\* Both callers shared the second scan and completed with it.
CoalescedFullBuildWitness ==
  /\ scansStarted = 2
  /\ scansActive = 0
  /\ \A c \in Callers : callers[c] \in {"resolved", "rejected"}

\* C10  Retraction on deletion: when a full build that started after file f was
\* deleted from the workspace has completed, no key maps to a Location in f.
RetractionOnDeletion ==
  \A f \in Files :
    deletedSince[f] = "rebuilt" => KeysWithLocationIn(phpWorkspaceIndex, f) = {}

\* The scan has handled one more file in this step, and its read failed.
ReadFails ==
  /\ Len(indexScan'.reads) = Len(indexScan.reads) + 1
  /\ indexScan'.reads[Len(indexScan'.reads)].text = Absent

\* The file the scan handles in this step.
FileInTurn == Head(phpWorkspaceIndexBuilding.uris)

\* The files of the enumeration that the scan has read, each with the text it was
\* indexed with.
ReadsOfScan(scan) == {scan.reads[i] : i \in {j \in 1..Len(scan.reads) : scan.reads[j].text # Absent}}

\* C14  A file whose read fails during a full build is skipped: the step changes
\* nothing in the index, so the entries the file had stay; the build goes on to
\* the next enumerated file, or ends resolved for every waiting caller when the
\* file was the last one; and when a build ends after the enumeration, it has
\* handled every enumerated file in turn, it ends resolved, and every file whose
\* read succeeded is indexed with the text read.
FailedReadIsSkipped ==
  [][ /\ ReadFails =>
           /\ UNCHANGED << indexVars, indexedText >>
           /\ indexScan'.reads[Len(indexScan'.reads)].uri = FileInTurn
           /\ IF Tail(phpWorkspaceIndexBuilding.uris) = <<>>
              THEN /\ BuildEnds
                   /\ \A c \in Callers : callers[c] = "waiting" => callers'[c] = "resolved"
              ELSE /\ phpWorkspaceIndexBuilding' =
                        [phpWorkspaceIndexBuilding EXCEPT !.uris = Tail(@)]
                   /\ callers' = callers
      /\ (BuildEnds /\ phpWorkspaceIndexBuilding.phase = "files") =>
           /\ [i \in 1..Len(indexScan'.reads) |-> indexScan'.reads[i].uri] = indexScan'.uris
           /\ \A c \in Callers : callers[c] = "waiting" => callers'[c] = "resolved"
           /\ \A r \in ReadsOfScan(indexScan') :
                /\ indexedText'[r.uri] = r.text
                /\ KeysOfText(r.text) \subseteq KeysWithLocationIn(phpWorkspaceIndex', r.uri)
    ]_vars

\* A build has ended resolved for a caller after it skipped a file that keeps its
\* entries of an earlier build and then indexed the file enumerated after it.
FailedReadIsSkippedWitness ==
  /\ phpWorkspaceIndexBuilding.token = "null"
  /\ \E c \in Callers : callers[c] = "resolved"
  /\ Len(indexScan.reads) = 2
  /\ indexScan.reads[1].text = Absent
  /\ indexScan.reads[2].text # Absent
  /\ KeysWithLocationIn(phpWorkspaceIndex, indexScan.reads[1].uri) # {}
  /\ KeysWithLocationIn(phpWorkspaceIndex, indexScan.reads[2].uri) # {}

-----------------------------------------------------------------------------
(* Properties of the editor events (specification SpecEvents) *)

\* C9  Retraction on close: from the handling of the close of file f until an open
\* event or a full build re-indexes f, f has no pending re-index timer, so that no
\* update scheduled before the close can run, and no key maps to a Location in f.
RetractionOnClose ==
  \A f \in Files :
    closedSince[f] # "no"
    => /\ f \notin DOMAIN phpIndexTimersByUri
       /\ KeysWithLocationIn(phpWorkspaceIndex, f) = {}
       /\ ~ENABLED TimerFires(f)

\* A file closed while it had entries in the index and a pending timer.
RetractionOnCloseWitness ==
  \E f \in Files : closedSince[f] = "closedWhilePending"

\* An open, change or save event of file f is handled in this step.
EventOn(f) ==
  \/ textDocuments'[f] # Absent /\ textDocuments'[f] # textDocuments[f]
  \/ disk'[f] # disk[f]

\* A timer callback of file f runs in this step.
TimerRunsFor(f) ==
  /\ timeouts'[f] < timeouts[f]
  /\ textDocuments'[f] = textDocuments[f] /\ textDocuments[f] # Absent
  /\ disk'[f] = disk[f]

\* The timers of the files other than f are as before the step.
OtherTimersKept(f) ==
  \A g \in Files \ {f} :
    /\ timeouts'[g] = timeouts[g]
    /\ (g \in DOMAIN phpIndexTimersByUri') <=> (g \in DOMAIN phpIndexTimersByUri)
    /\ g \in DOMAIN phpIndexTimersByUri => phpIndexTimersByUri'[g] = phpIndexTimersByUri[g]

\* C15  Debounce collapse: a file has at most one live re-index timer, the one
\* the timer map holds; an open, save or change event leaves exactly one, the
\* newly scheduled one, whether or not a timer was pending; when the timer runs
\* it re-indexes the file once with its text after the last event and leaves no
\* timer, so that a burst of events without a timer run in between causes
\* exactly one update; the timers of the other files are not affected.
DebounceCollapse ==
  [][ \A f \in Files :
        /\ timeouts'[f] <= 1
        /\ (timeouts'[f] = 1) <=> (f \in DOMAIN phpIndexTimersByUri')
        /\ EventOn(f) =>
             /\ timeouts'[f] = 1
             /\ phpIndexTimersByUri'[f] \in {IndexDelayOpenSave, IndexDelayChange}
             /\ UNCHANGED << indexVars, indexedText >>
             /\ OtherTimersKept(f)
        /\ TimerRunsFor(f) =>
             /\ timeouts[f] = 1 /\ timeouts'[f] = 0
             /\ indexedText'[f] = textDocuments[f]
             /\ phpWorkspaceIndexVersion' > phpWorkspaceIndexVersion
             /\ OtherTimersKept(f)
    ]_vars

\* A file was opened and then edited, and the one update the index has seen is
\* the timer's, with the text after the last edit; no timer is left for the file.
DebounceCollapseWitness ==
  \E f \in Files :
    /\ phpWorkspaceIndexBuilding.phase = "findFiles"
    /\ textDocuments[f] # Absent /\ textDocuments[f] # disk[f]
    /\ indexedText[f] = textDocuments[f]
    /\ \A g \in Files \ {f} : indexedText[g] = Absent
    /\ phpWorkspaceIndexVersion = 1
    /\ timeouts[f] = 0

-----------------------------------------------------------------------------
(* Properties of the two indices side by side (specification SpecIndependence) *)

\* The state of the Workspace Symbol Index, of its build and of its timers.
symbolSide == << indexVars, phpWorkspaceIndexBuilding, phpIndexTimersByUri, timeouts >>

\* An editor event is handled in this step; its two listeners run.
EditorEvent == textDocuments' # textDocuments \/ disk' # disk

\* C16  Independence of indices: outside editor events a step that changes the
\* Workspace Symbol Index, its version, its build token or its timers (an update
\* by a timer, a step of a full build) leaves the route index, its key sets, its
\* version, its build token and its timers unchanged, and a step that changes any
\* of these (an update by a route timer, a step or the start of a route build)
\* leaves the former unchanged; an editor event changes no index map except that
\* a close deletes the file from each index as its own delete function does, and
\* changes the timers of that file only; a route build is started whenever the
\* route token is clear, whatever the token and timers of the other index are.
IndependentIndices ==
  [][ /\ ~EditorEvent =>
           \/ UNCHANGED symbolSide
           \/ UNCHANGED routeVars
      /\ EditorEvent =>
           /\ \A f \in Files :
                (textDocuments'[f] = textDocuments[f] /\ disk'[f] = disk[f])
                  => /\ timeouts'[f] = timeouts[f]
                     /\ MapGet(phpIndexTimersByUri', f) = MapGet(phpIndexTimersByUri, f)
                     /\ MapGet(laravelIndexTimersByUri', f) = MapGet(laravelIndexTimersByUri, f)
           /\ UNCHANGED << phpWorkspaceIndexBuilding, laravelRouteIndexBuilding >>
           /\ \A f \in Files :
                (textDocuments[f] # Absent /\ textDocuments'[f] = Absent)
                  => /\ RouteWorkspace' = deleteLaravelRouteIndexForUri(RouteWorkspace, f)
                     /\ Workspace' = deletePhpIndexForUri(Workspace, f)
           /\ (\A f \in Files : textDocuments'[f] # Absent \/ textDocuments[f] = Absent)
                => UNCHANGED << indexVars, routeIndexVars >>
      /\ (laravelRouteIndexBuilding.token = "null" /\ laravelRouteIndexBuilding'.token # "null")
           => /\ laravelRouteIndexBuilding'.phase = "findFiles"
              /\ UNCHANGED symbolSide
    ]_vars

\* Both builds are pending at different positions; the route timer of file B has
\* run and put its route names in the route index, a step of the symbol build has
\* put the keys of B in the symbol index, and the symbol timer of B still waits.
IndependentIndicesWitness ==
  /\ phpWorkspaceIndexBuilding.phase = "files"
  /\ laravelRouteIndexBuilding.phase = "findFiles"
  /\ laravelRouteIndexVersion > 0
  /\ "B" \in DOMAIN laravelRouteIndexKeysByUri
  /\ KeysWithLocationIn(phpWorkspaceIndex, "B") # {}
  /\ "B" \in DOMAIN phpIndexTimersByUri
  /\ "B" \notin DOMAIN laravelIndexTimersByUri

-----------------------------------------------------------------------------
(* Properties of symbol extraction (specification SpecExtraction) *)

\* The offsets of the names of the type declarations of a text.
DeclaredTypes(text) ==
  {i \in 2..Len(text) : text[i - 1] \in ClassKeywords /\ IsWord(text[i])}

\* The body of the type declared at i: from its opening brace to the matching one.
BodyOf(text, i) ==
  The({ [start |-> start, end |-> IF start = 0 THEN 0 ELSE findMatchingBrace(text, start)] :
        start \in {IndexOfTok(text, "{", i)} })

HasBody(text, i) == BodyOf(text, i).start # 0 /\ BodyOf(text, i).end # 0

\* The offsets of the names of the function declarations of a text.
DeclaredFunctions(text) ==
  {j \in 2..Len(text) : /\ IsWord(text[j]) /\ Tok(text, j + 1) = "("
                        /\ \/ text[j - 1] = "function"
                           \/ text[j - 1] = "&" /\ Tok(text, j - 2) = "function"}

\* Offset j lies in the body of the type declared at i.
InBodyOf(text, i, j) == HasBody(text, i) /\ BodyOf(text, i).start < j /\ j < BodyOf(text, i).end

\* Offset j lies between the opening brace of the type declared at i and its
\* closing brace, or the end of the text if the brace is not closed.
NestedIn(text, i, j) ==
  /\ BodyOf(text, i).start # 0 /\ BodyOf(text, i).start < j
  /\ BodyOf(text, i).end # 0 => j < BodyOf(text, i).end

\* The offsets of the names of the global constants of a text: const X = outside
\* the types, and define('X'.
DeclaredConstants(text) ==
  {j \in 2..Len(text) :
     \/ /\ text[j - 1] = "const" /\ IsWord(text[j]) /\ Tok(text, j + 1) = "="
        /\ \A i \in DeclaredTypes(text) : ~NestedIn(text, i, j)
     \/ /\ j > 3 /\ text[j - 3] = "define" /\ text[j - 2] = "("
        /\ text[j - 1] \in {"'", "\""} /\ Tok(text, j + 1) = text[j - 1]}

\* After the step, key holds the declaration at offset j of file f, once.
RegisteredOnce(f, key, j) ==
  Occurrences(MapGet(phpWorkspaceIndex', key), Location(f, j)) = 1

\* The declaration named at offset j with short key `short` is registered under
\* the short key, and under the key prefixed by the namespace when there is one.
RegisteredUnderBoth(f, namespace, short, j) ==
  /\ RegisteredOnce(f, short, j)
  /\ namespace # <<>> => RegisteredOnce(f, namespace \o <<"\\">> \o short, j)

\* A file without a namespace has no key with a namespace separator.
ShortKeysOnly(f, namespace) ==
  namespace = <<>> =>
    \A key \in MapGet(phpWorkspaceIndexKeysByUri', f) :
      \A n \in 1..Len(key) : key[n] # "\\"

-----------------------------------------------------------------------------
(* Properties of the callable signatures (specification SpecSignatures) *)

Modifiers == {"public", "protected", "private", "static", "abstract", "final"}

\* The offset at which the function declaration named at offset j begins: its
\* `function` keyword or the first of the modifiers before it.
DeclarationStart(text, j) ==
  The({ CHOOSE i \in 1..kw :
          /\ \A n \in i..(kw - 1) : text[n] \in Modifiers
          /\ i > 1 => text[i - 1] \notin Modifiers :
        kw \in {IF text[j - 1] = "&" THEN j - 2 ELSE j - 1} })

\* The doc-comment directly preceding the declaration named at j; <<>> if none.
DocCommentOf(text, j) ==
  The({ IF Tok(text, d - 1) # "*/" THEN <<>>
        ELSE SubSeq(text, LastIndexOfTok(text, "/**", d - 1), d - 1) :
        d \in {DeclarationStart(text, j)} })

\* The types a doc-comment gives for parameter `name`, and for the return value.
DocParamTypes(doc, name) ==
  {doc[i + 1] : i \in {n \in 1..Len(doc) : /\ doc[n] = "@param" /\ Tok(doc, n + 2) = "$"
                                           /\ Tok(doc, n + 3) = name}}

DocReturnTypes(doc) == {doc[i + 1] : i \in {n \in 1..Len(doc) : doc[n] = "@return"}}

\* The parameter declared by `piece` with the type the rule gives: the declared
\* type hint, else the type of the doc-comment, else mixed.
MergedParameter(piece, doc) ==
  The({ [name |-> piece[k + 1],
         type |-> IF \E n \in 1..(k - 1) : IsWord(piece[n])
                  THEN piece[CHOOSE n \in 1..(k - 1) :
                               IsWord(piece[n]) /\ \A q \in 1..(n - 1) : ~IsWord(piece[q])]
                  ELSE IF DocParamTypes(doc, piece[k + 1]) # {}
                  THEN The(DocParamTypes(doc, piece[k + 1]))
                  ELSE "mixed",
         variadic |-> \E n \in 1..(k - 1) : piece[n] = "..."] :
        k \in {IndexOfTok(piece, "$", 1)} })

\* The label the rule gives the function declared at offset j.
MergedLabel(text, j) ==
  The({ The({ <<text[j], "(">>
              \o JoinParameters([n \in 1..Len(pieces) |-> MergedParameter(pieces[n], doc)])
              \o <<")", ":",
                   IF Tok(text, close + 1) = ":" THEN text[close + 2]
                   ELSE IF DocReturnTypes(doc) # {} THEN The(DocReturnTypes(doc))
                   ELSE "mixed">> :
              pieces \in {splitPhpParameters(SubSeq(text, j + 2, close - 1))} }) :
        close \in {IndexOfTok(text, ")", j + 2)},
        doc \in {DocCommentOf(text, j)} })

\* The key of the function declared at offset j: Type::name in the body of a
\* type, else name.
CallableKey(text, j) ==
  IF \E i \in DeclaredTypes(text) : InBodyOf(text, i, j)
  THEN <<text[CHOOSE i \in DeclaredTypes(text) : InBodyOf(text, i, j)], "::", text[j]>>
  ELSE <<text[j]>>

\* C18 as stated: the CallableSignature registered for every function and method
\* of an indexed file has the label name(params): returnType in which the type of
\* each parameter is its declared type hint, else the type the doc-comment
\* directly preceding the declaration gives for it, else mixed, and the return
\* type follows the same rule.
SignatureTypeMerge ==
  \A f \in Files :
    indexedText[f] # Absent =>
      \E text \in {GetText(indexedText[f])} :
        \A j \in DeclaredFunctions(text) :
          \E infos \in {MapGet(phpWorkspaceFunctionInfoByKey, CallableKey(text, j))} :
            \E n \in 1..Len(infos) :
              infos[n].uriKey = f /\ infos[n].label = MergedLabel(text, j)

-----------------------------------------------------------------------------
(* Properties of the supertypes of a class (specification SpecSupertypes) *)

\* The imports of a text that writes each on a line of its own, as
\* "use Name;" or as "use Name as Alias;".
ImportOf(line) ==
  IF Len(line) >= 5 /\ line[Len(line) - 2] = "as"
  THEN [alias |-> line[Len(line) - 1], fqn |-> SubSeq(line, 2, Len(line) - 3)]
  ELSE [alias |-> line[Len(line) - 1], fqn |-> SubSeq(line, 2, Len(line) - 1)]

Imports(lines) ==
  {ImportOf(lines[n]) : n \in {m \in 1..Len(lines) :
                                 /\ Len(lines[m]) >= 3
                                 /\ lines[m][1] = "use"
                                 /\ lines[m][Len(lines[m])] = ";"}}

\* The lines that declare a class, the name under which the class is known, and
\* the words its header has after "extends" and after "implements".
ClassLines(lines) == {n \in 1..Len(lines) : Len(lines[n]) >= 2 /\ lines[n][1] = "class"}

FileNamespace(lines) ==
  IF lines # <<>> /\ lines[1] # <<>> /\ lines[1][1] = "namespace"
  THEN SubSeq(lines[1], 2, Len(lines[1]) - 1) ELSE <<>>

ClassLineFqn(lines, n) ==
  IF FileNamespace(lines) # <<>> THEN FileNamespace(lines) \o <<"\\", lines[n][2]>>
  ELSE <<lines[n][2]>>

ExtendsNamed(line) == {line[k] : k \in {x \in 2..Len(line) : line[x - 1] = "extends"}}

ImplementsNamed(line) ==
  {line[k] : k \in {x \in 2..Len(line) :
                      /\ IsWord(line[x])
                      /\ \E p \in 1..(x - 1) : line[p] = "implements"
                      /\ \A p \in 1..x : line[p] # "{"}}

\* The supertypes the index records for the class declared on line n of the
\* text of file f: the ClassInfo of that file under the name of the class.
RecordedFor(f, lines, n) ==
  {phpWorkspaceClassInfoByFqn[i] :
     i \in {j \in 1..Len(phpWorkspaceClassInfoByFqn) :
              /\ phpWorkspaceClassInfoByFqn[j].uri = f
              /\ phpWorkspaceClassInfoByFqn[j].fqn = ClassLineFqn(lines, n)}}

Holds(list, fqn) == \E j \in 1..Len(list) : list[j] = fqn

\* C19: when a file imports a type with a use declaration, with or without "as",
\* and a class of the file names the alias after extends or implements, the
\* ClassInfo of the class records the imported fully-qualified name.
AliasResolution ==
  \A f \in Files :
    indexedText[f] # Absent =>
      \A n \in ClassLines(indexedText[f]) :
        \A info \in RecordedFor(f, indexedText[f], n) :
          \A import \in Imports(indexedText[f]) :
            /\ import.alias \in ExtendsNamed(indexedText[f][n])
                 => Holds(info.extends, import.fqn)
            /\ import.alias \in ImplementsNamed(indexedText[f][n])
                 => Holds(info.implements, import.fqn)

-----------------------------------------------------------------------------
(* Properties of ambiguous short names (specification SpecAmbiguity) *)

\* The entries registered under a key: updatePhpIndexForDocument appends each
\* Location to the list its key already has.
RegisteredUnder(k) == MapGet(phpWorkspaceIndex, k)

ShortName(word) == <<word[Len(word)]>>

IsQualified(word) == Len(word) > 1

\* The files that declare a type whose short name is the last part of word.
DeclaringFiles(word) ==
  {f \in Files : \E i \in 1..Len(RegisteredUnder(ShortName(word))) :
                   RegisteredUnder(ShortName(word))[i].uri = f}

RegistrationOrderKept ==
  \A k \in DOMAIN phpWorkspaceIndex' :
    /\ Len(LocationsOutside(RegisteredUnder(k), lastOp'.file)) <= Len(phpWorkspaceIndex'[k])
    /\ SubSeq(phpWorkspaceIndex'[k], 1, Len(LocationsOutside(RegisteredUnder(k), lastOp'.file)))
         = LocationsOutside(RegisteredUnder(k), lastOp'.file)
    /\ \A x \in (Len(LocationsOutside(RegisteredUnder(k), lastOp'.file)) + 1)
                  ..Len(phpWorkspaceIndex'[k]) :
         phpWorkspaceIndex'[k][x].uri = lastOp'.file

-----------------------------------------------------------------------------
(* Properties of the route index (specification SpecRoutes) *)

\* The route names a text registers: the string of ->name('x') and of
\* Route::name('x').
RouteNamesRegistered(lines) ==
  LET t == GetText(lines)
  IN {t[i] : i \in {x \in 5..(Len(t) - 2) :
                      /\ t[x - 1] = "'" /\ t[x + 1] = "'" /\ t[x + 2] = ")"
                      /\ t[x - 2] = "(" /\ t[x - 3] = "name"
                      /\ t[x - 4] \in {"->", "::"}
                      /\ t[x - 4] = "::" => (x >= 6 /\ t[x - 5] = "Route")}}

\* Every route name maps to a Location in a file exactly when the text last
\* indexed for the file registers the name, and no name maps to an empty list.
RouteIndexExact ==
  /\ \A f \in RouteCallFiles :
       \A k \in DOMAIN laravelRouteIndex \cup UNION {RouteNamesRegistered(x) : x \in RouteTexts} :
         HasLocationIn(laravelRouteIndex, k, f)
           <=> /\ f \in RouteFiles
               /\ routeIndexedText[f] # Absent
               /\ k \in RouteNamesRegistered(routeIndexedText[f])
  /\ \A k \in DOMAIN laravelRouteIndex : laravelRouteIndex[k] # <<>>

\* C21: after every update and deletion of route files a route name maps to a
\* Location in a file exactly when the text last indexed for the file registers
\* it, a name without Location is absent from the map, and the deletion of a
\* file that has no Location in the route index changes nothing.
RouteRetractThenInsert ==
  [][ /\ RouteIndexExact'
      /\ (/\ lastOp'.op = "routeDelete"
          /\ \A k \in DOMAIN laravelRouteIndex :
               ~HasLocationIn(laravelRouteIndex, k, lastOp'.file))
           => UNCHANGED << laravelRouteIndex, laravelRouteIndexKeysByUri,
                           laravelRouteIndexVersion >> ]_vars

\* routes/web.php, which registered admin and home, has been deleted from the
\* index while routes/api.php registers home: home is left with the Location
\* in routes/api.php and admin is gone.
RouteRetractThenInsertWitness ==
  /\ lastOp.op = "routeDelete" /\ lastOp.file = "B" /\ lastOp.text = TextRouteGroup
  /\ routeIndexedText["C"] = TextRoutes
  /\ "home" \in DOMAIN laravelRouteIndex
  /\ Len(laravelRouteIndex["home"]) = 1 /\ laravelRouteIndex["home"][1].uri = "C"
  /\ "admin" \notin DOMAIN laravelRouteIndex

-----------------------------------------------------------------------------
(* Properties of the tracked keys (specification Spec) *)

TrackedKeys(f) ==
  IF f \in DOMAIN phpWorkspaceIndexKeysByUri THEN phpWorkspaceIndexKeysByUri[f] ELSE {}

\* C22: a key is in the tracked key set of a file exactly when the location
\* list of the key holds a Location in the file, and no key of the index maps
\* to an empty location list.
KeyTracking ==
  /\ \A f \in Files :
       \A k \in DOMAIN phpWorkspaceIndex \cup TrackedKeys(f) :
         k \in TrackedKeys(f) <=> HasLocationIn(phpWorkspaceIndex, k, f)
  /\ \A k \in DOMAIN phpWorkspaceIndex : phpWorkspaceIndex[k] # <<>>

\* Both files have been indexed with a class Greeter, the second by the last
\* call: the key Greeter is tracked for both and holds a Location in each.
KeyTrackingWitness ==
  /\ lastOp.op = "update" /\ lastOp.languageId = "php"
  /\ \A f \in Files : <<"Greeter">> \in TrackedKeys(f)
  /\ <<"Greeter">> \in DOMAIN phpWorkspaceIndex
  /\ Len(phpWorkspaceIndex[<<"Greeter">>]) = 2
  /\ \E f \in Files : Cardinality(TrackedKeys(f)) > 2

-----------------------------------------------------------------------------
(* Properties of the short-name table (specification Spec) *)

\* The fully-qualified names ClassInfo holds with short name s.
FqnsWithShortName(s) ==
  {phpWorkspaceClassInfoByFqn[i].fqn :
     i \in {j \in 1..Len(phpWorkspaceClassInfoByFqn) :
              phpWorkspaceClassInfoByFqn[j].shortName = s}}

ShortNamesOfClassInfo ==
  {phpWorkspaceClassInfoByFqn[i].shortName : i \in 1..Len(phpWorkspaceClassInfoByFqn)}

\* C23: the short-name table lists fully-qualified name q under short name s
\* exactly when ClassInfo holds q with short name s, lists each name once, and
\* holds no short name without a class.
ShortNameTable ==
  /\ DOMAIN phpWorkspaceClassFqnsByShortName = ShortNamesOfClassInfo
  /\ \A s \in DOMAIN phpWorkspaceClassFqnsByShortName :
       /\ {phpWorkspaceClassFqnsByShortName[s][i] :
             i \in 1..Len(phpWorkspaceClassFqnsByShortName[s])} = FqnsWithShortName(s)
       /\ Len(phpWorkspaceClassFqnsByShortName[s]) = Cardinality(FqnsWithShortName(s))

\* Two files declare Greeter in two namespaces: the table lists both names
\* under Greeter after the update that registered the second.
ShortNameTableWitness ==
  /\ lastOp.op = "update" /\ lastOp.languageId = "php"
  /\ "Greeter" \in DOMAIN phpWorkspaceClassFqnsByShortName
  /\ Len(phpWorkspaceClassFqnsByShortName["Greeter"]) = 2
  /\ FqnsWithShortName("Greeter")
       = { <<"App", "\\", "Greeter">>, <<"Other", "\\", "Greeter">> }

-----------------------------------------------------------------------------
(* Properties of the retraction of the auxiliary tables (specification Spec) *)

\* The entries of a list of SymbolMetadata or of CallableSignature that
\* originate in file f, and those that originate elsewhere.
InfosOf(infoList, f) == SelectSeq(infoList, LAMBDA info : info.uriKey = f)

InfosOutside(infoList, f) == SelectSeq(infoList, LAMBDA info : info.uriKey # f)

ClassInfosOf(classInfos, f) == SelectSeq(classInfos, LAMBDA info : info.uri = f)

ClassInfosOutside(classInfos, f) == SelectSeq(classInfos, LAMBDA info : info.uri # f)

\* How many symbols with a kind, and how many with a signature, a text
\* registers under key k.
KindsRegistered(text, k) ==
  Cardinality({i \in 1..Len(SymbolsTable["A"][text]) :
                 SymbolsTable["A"][text][i].key = k /\ SymbolsTable["A"][text][i].kind # ""})

SignaturesRegistered(text, k) ==
  Cardinality({i \in 1..Len(SymbolsTable["A"][text]) :
                 /\ SymbolsTable["A"][text][i].key = k
                 /\ SymbolsTable["A"][text][i].signature # <<>>})

\* After a call for file f no entry of the auxiliary tables that the call found
\* is left for f: after deleteFile there is none, after updateFile with a text
\* there are the entries the text registers and no other.
RetractedFor(f, text) ==
  /\ \A k \in DOMAIN phpWorkspaceSymbolInfo' :
       Len(InfosOf(phpWorkspaceSymbolInfo'[k], f))
         = IF text = Absent THEN 0 ELSE KindsRegistered(text, k)
  /\ \A k \in DOMAIN phpWorkspaceFunctionInfoByKey' :
       Len(InfosOf(phpWorkspaceFunctionInfoByKey'[k], f))
         = IF text = Absent THEN 0 ELSE SignaturesRegistered(text, k)
  /\ \A i \in 1..Len(phpWorkspaceClassInfoByFqn') :
       phpWorkspaceClassInfoByFqn'[i].uri = f
         => text # Absent /\ phpWorkspaceClassInfoByFqn'[i].fqn \in ClassFqnsOfText(text)

\* The entries of the other files are as they were; a ClassInfo of another file
\* is looked at only when the text of the call does not declare its name.
OthersKept(f, text) ==
  /\ \A k \in DOMAIN phpWorkspaceSymbolInfo \cup DOMAIN phpWorkspaceSymbolInfo' :
       InfosOutside(MapGet(phpWorkspaceSymbolInfo', k), f)
         = InfosOutside(MapGet(phpWorkspaceSymbolInfo, k), f)
  /\ \A k \in DOMAIN phpWorkspaceFunctionInfoByKey \cup DOMAIN phpWorkspaceFunctionInfoByKey' :
       InfosOutside(MapGet(phpWorkspaceFunctionInfoByKey', k), f)
         = InfosOutside(MapGet(phpWorkspaceFunctionInfoByKey, k), f)
  /\ ClassInfosOutside(phpWorkspaceClassInfoByFqn', f)
       = SelectSeq(ClassInfosOutside(phpWorkspaceClassInfoByFqn, f),
                   LAMBDA info : text = Absent \/ info.fqn \notin ClassFqnsOfText(text))

\* C24: deleteFile(A) and the retraction that opens updateFile(A, ...) leave no
\* SymbolMetadata entry, no CallableSignature entry and no ClassInfo of A from
\* before the call, and leave the entries of the other files unchanged.
AuxiliaryRetraction ==
  [][ /\ lastOp'.op = "delete"
           => RetractedFor(lastOp'.file, Absent) /\ OthersKept(lastOp'.file, Absent)
      /\ (lastOp'.op = "update" /\ lastOp'.languageId = "php")
           => RetractedFor(lastOp'.file, lastOp'.text)
                /\ OthersKept(lastOp'.file, lastOp'.text) ]_vars

\* A file that registered a function with a signature and a class has been
\* deleted from the index while the other file keeps its own function and
\* class, under the same short names.
AuxiliaryRetractionWitness ==
  /\ lastOp.op = "delete" /\ lastOp.text = TextAppGreeterFoo
  /\ \E g \in Files \ {lastOp.file} :
       /\ indexedText[g] = TextOtherGreeter
       /\ Len(ClassInfosOf(phpWorkspaceClassInfoByFqn, g)) = 1
       /\ \E k \in DOMAIN phpWorkspaceFunctionInfoByKey :
            Len(InfosOf(phpWorkspaceFunctionInfoByKey[k], g)) = 1
       /\ Len(InfosOf(MapGet(phpWorkspaceSymbolInfo, <<"Greeter">>), g)) = 1
  /\ ClassInfosOf(phpWorkspaceClassInfoByFqn, lastOp.file) = <<>>

-----------------------------------------------------------------------------
(* Properties of the re-index timers in time (specification SpecDebounce) *)

TimerPending(f) == f \in DOMAIN phpIndexTimersByUri

\* The index holds what the editor shows of an open file and no timer waits.
Reflected(f) == ~TimerPending(f) /\ indexedText[f] = textDocuments[f]

\* C25: when the open, save and change events of a file stop, then from some
\* time on the file is closed or no timer of it waits and the index holds its
\* latest text: the update of the last event has run.
DebounceLiveness ==
  \A f \in Files :
    <>[][~EventOn(f)]_vars => <>[](textDocuments[f] # Absent => Reflected(f))

\* An open file was edited, its text differs from the text on disk, and the
\* timer of the edit has run: the index holds the edited text.
DebounceLivenessWitness ==
  \E f \in Files :
    /\ textDocuments[f] # Absent /\ disk[f] # textDocuments[f]
    /\ Reflected(f)
    /\ phpWorkspaceIndexVersion >= 2

-----------------------------------------------------------------------------
(* Properties of the header a signature is read from (specification SpecSignatures) *)

\* The name of the callable a key stands for: what follows the last "::" or
\* "\" of the key.
CallableNameOf(key) == key[Len(key)]

\* C26: the label of every CallableSignature starts with the name of the
\* callable under whose key it is stored.
SignatureOfOwnHeader ==
  \A k \in DOMAIN phpWorkspaceFunctionInfoByKey :
    \A n \in 1..Len(phpWorkspaceFunctionInfoByKey[k]) :
      phpWorkspaceFunctionInfoByKey[k][n].label[1] = CallableNameOf(k)

-----------------------------------------------------------------------------
(* Properties of unbalanced declarations (specification SpecExtraction) *)

\* The offsets of the names declared in a text: types, functions and constants.
DeclaredNames(text) ==
  DeclaredTypes(text) \cup DeclaredFunctions(text)
    \cup {j \in 2..Len(text) : text[j - 1] = "const" /\ IsWord(text[j])}

\* C27: after updateFile(f, text) a type of the text whose opening brace has no
\* matching close brace has no entry under any key, and neither has any
\* declaration that follows its opening brace: no key of the index holds the
\* Location of the type's name or of a name nested in it.
UnbalancedSkipped ==
  [][ (lastOp'.op = "update" /\ lastOp'.languageId = "php") =>
        \E f \in {lastOp'.file}, text \in {GetText(lastOp'.text)} :
          \A i \in DeclaredTypes(text) :
            ~HasBody(text, i) =>
              \A j \in DeclaredNames(text) :
                (j = i \/ NestedIn(text, i, j)) =>
                  \A key \in DOMAIN phpWorkspaceIndex' :
                    Occurrences(phpWorkspaceIndex'[key], Location(f, j)) = 0
    ]_vars

-----------------------------------------------------------------------------
(* Properties of the doc-comment tags (specification SpecDocblock) *)

\* The offsets of the @param tags a doc-comment holds for `name`, and of its
\* @return tags.
ParamTagsOf(doc, name) ==
  {n \in 1..Len(doc) : doc[n] = "@param" /\ Tok(doc, n + 2) = "$" /\ Tok(doc, n + 3) = name}

ReturnTagsOf(doc) == {n \in 1..Len(doc) : doc[n] = "@return"}

\* The type of the first tag among `tags`.
FirstTagType(doc, tags) == doc[(CHOOSE n \in tags : \A q \in tags : n <= q) + 1]

\* C28: for the doc-comment of every function of an indexed file,
\* parsePhpDocblock gives each parameter name the type of the first @param tag
\* the doc-comment holds for it and, as return type, the type of the first
\* @return tag: a later tag replaces neither.
DocblockFirstMatch ==
  \A f \in Files :
    indexedText[f] # Absent =>
      \E text \in {GetText(indexedText[f])} :
        \A j \in DeclaredFunctions(text) :
          \E docblock \in {DocCommentOf(text, j)} :
            \E doc \in {parsePhpDocblock(docblock)} :
              /\ \A name \in DOMAIN doc.params :
                   doc.params[name] = FirstTagType(docblock, ParamTagsOf(docblock, name))
              /\ ReturnTagsOf(docblock) # {} =>
                   doc.returns = FirstTagType(docblock, ReturnTagsOf(docblock))

\* The part of C28 the code keeps: the return type is that of the first @return
\* tag of the doc-comment.
DocblockFirstReturn ==
  \A f \in Files :
    indexedText[f] # Absent =>
      \E text \in {GetText(indexedText[f])} :
        \A j \in DeclaredFunctions(text) :
          \E docblock \in {DocCommentOf(text, j)} :
            ReturnTagsOf(docblock) # {} =>
              parsePhpDocblock(docblock).returns
                = FirstTagType(docblock, ReturnTagsOf(docblock))

-----------------------------------------------------------------------------
(* Properties of variable type inference (specification SpecInference) *)

\* The tags that annotate the type of a variable.
VariableTags == {"@var", "@param"}

\* The annotations of a window: a doc-comment `/** tag type ... */` that the
\* variable it annotates follows.
DocAnnotations(window) ==
  {[name |-> window[e + 2], type |-> window[i + 2]] :
     <<i, e>> \in {<<i, e>> \in (1..Len(window)) \X (1..Len(window)) :
                     /\ window[i] = "/**" /\ Tok(window, i + 1) \in VariableTags
                     /\ e = IndexOfTok(window, "*/", i) /\ e > i + 2
                     /\ Tok(window, e + 1) = "$" /\ IsWord(Tok(window, e + 2))}}

\* The window assigns the variable an expression of a recognisable shape: a
\* number, an array, or an instantiation.
ShapeAssigned(window, name) ==
  \E i \in 1..Len(window) :
    /\ window[i] = "$" /\ Tok(window, i + 1) = name /\ Tok(window, i + 2) = "="
    /\ Tok(window, i + 3) \in {"1", "[", "new"}
    /\ IndexOfTok(window, ";", i + 4) # 0

\* C29: at every position of a document, a variable that the window before the
\* position both annotates in a doc-comment and assigns an expression of a
\* recognisable shape has the annotated type.
AnnotationPrecedence ==
  \A f \in Files :
    indexedText[f] # Absent =>
      \E lines \in {indexedText[f]} :
        \A offset \in 0..Len(GetText(lines)) :
          \E window \in {SubSeq(GetText(lines), 1, offset)},
             inferred \in {inferPhpVariableTypes(lines, offset)} :
            \A a \in DocAnnotations(window) :
              ShapeAssigned(window, a.name) =>
                MapGet(inferred, a.name)
                  = resolvePhpTypeTokenToFqn(<<a.type>>, getPhpNamespace(lines),
                                             parsePhpUseAliases(lines))

-----------------------------------------------------------------------------
(* Properties of the class of $this (specification SpecEnclosing) *)

\* The offset of the member of the $this->member reference of a text (each text
\* of the specification holds one).
ThisMemberOffset(text) ==
  CHOOSE j \in 4..Len(text) : text[j - 1] = "->" /\ text[j - 2] = "this" /\ text[j - 3] = "$"

\* The names of the types whose brace-matched body contains offset j.
EnclosingTypes(text, j) == {text[i] : i \in {x \in DeclaredTypes(text) : InBodyOf(text, x, j)}}

\* The Locations the index gives member `member` of class `className`, <<>> if
\* none of the member keys of the class has one.
MemberLocations(index, className, member) ==
  The({ IF hit = 0 THEN <<>> ELSE index[ThisCandidates(className, member)[hit]] :
        hit \in {FirstKeyWithLocations(index, ThisCandidates(className, member))} })

\* C30: a $this->member reference resolves in the class whose brace-matched body
\* contains the reference: the Locations returned are those of a member key of
\* an enclosing class, when one of its member keys has Locations, and else those
\* of the plain lookup of the word; at a position outside every class body no
\* member key of any class is consulted.
ThisIsEnclosingClass ==
  [][ (definitionRequest' # definitionRequest /\ definitionRequest'.kind = "this") =>
        \E text \in {GetText(definitionRequest'.text)} :
          \E j \in {ThisMemberOffset(text)} :
            \E plain \in {resolvePhpReferenceFromIndex(phpWorkspaceIndex,
                                                       [word |-> definitionRequest'.word])} :
              IF \E name \in EnclosingTypes(text, j) :
                   MemberLocations(phpWorkspaceIndex, name, text[j]) # <<>>
              THEN \E name \in EnclosingTypes(text, j) :
                     definitionRequest'.result = MemberLocations(phpWorkspaceIndex, name, text[j])
              ELSE definitionRequest'.result = plain
    ]_vars

-----------------------------------------------------------------------------
(* Properties of the candidate keys of a static reference (specification SpecFallback) *)

\* The static reference C::m of a document (each document of the specification
\* holds one): the class token without leading backslash, and the member.
StaticReferenceOf(text) ==
  The({ [classToken |-> StripLeadingBackslashes(
                          SubSeq(text,
                                 CHOOSE a \in 1..(j - 1) :
                                   /\ \A x \in a..(j - 1) : IsWord(text[x]) \/ text[x] = "\\"
                                   /\ a > 1 => ~(IsWord(text[a - 1]) \/ text[a - 1] = "\\"),
                                 j - 1)),
         member |-> text[j + 1]] :
        j \in {CHOOSE x \in 2..Len(text) : text[x] = "::"} })

\* The class name a document imports as `name`: the fully-qualified name of the
\* use clause that ends with it, else <<>>.
ImportedAs(lines, name) ==
  The({ IF hits = {} THEN <<>>
        ELSE SubSeq(lines[The(hits)], 2, Len(lines[The(hits)]) - 1) :
        hits \in {{n \in 1..Len(lines) :
                     /\ Len(lines[n]) >= 3 /\ lines[n][1] = "use"
                     /\ lines[n][Len(lines[n]) - 1] = name}} })

\* The fully-qualified (alias-resolved) key and the short-name key of C::m.
QualifiedStaticKey(lines, ref) ==
  (IF Len(ref.classToken) = 1 /\ ImportedAs(lines, ref.classToken[1]) # <<>>
   THEN ImportedAs(lines, ref.classToken[1]) ELSE ref.classToken) \o <<"::", ref.member>>

ShortStaticKey(ref) == <<ref.classToken[Len(ref.classToken)], "::", ref.member>>

\* C31 as stated: a static reference is answered with the Locations of the
\* fully-qualified key when it has any, else with those of the short-name key
\* when it has any, else with no result.
StaticFallbackOrder ==
  [][ (definitionRequest' # definitionRequest /\ definitionRequest'.kind = "static") =>
        \E lines \in {definitionRequest'.text} :
          \E ref \in {StaticReferenceOf(GetText(lines))} :
            definitionRequest'.result =
              IF MapGet(phpWorkspaceIndex, QualifiedStaticKey(lines, ref)) # <<>>
              THEN phpWorkspaceIndex[QualifiedStaticKey(lines, ref)]
              ELSE MapGet(phpWorkspaceIndex, ShortStaticKey(ref))
    ]_vars

\* C31 amended: as stated, except that when both static keys are absent or
\* empty the answer is that of the key of the bare member name m (a free
\* function or a constant m), and no result only when that key is absent too.
StaticFallbackOrderAmended ==
  [][ (definitionRequest' # definitionRequest /\ definitionRequest'.kind = "static") =>
        \E lines \in {definitionRequest'.text} :
          \E ref \in {StaticReferenceOf(GetText(lines))} :
            definitionRequest'.result =
              IF MapGet(phpWorkspaceIndex, QualifiedStaticKey(lines, ref)) # <<>>
              THEN phpWorkspaceIndex[QualifiedStaticKey(lines, ref)]
              ELSE IF MapGet(phpWorkspaceIndex, ShortStaticKey(ref)) # <<>>
              THEN phpWorkspaceIndex[ShortStaticKey(ref)]
              ELSE MapGet(phpWorkspaceIndex, <<ref.member>>)
    ]_vars

\* The reference Greeter::hello of a document that imports App\Greeter is
\* answered with the one Location of App\Greeter::hello while the short key
\* Greeter::hello holds the Locations of two files.
StaticFallbackOrderWitness ==
  /\ definitionRequest.kind = "static"
  /\ definitionRequest.text = TextStaticAliased
  /\ Len(definitionRequest.result) = 1
  /\ definitionRequest.result = MapGet(phpWorkspaceIndex, <<"App", "\\", "Greeter", "::", "hello">>)
  /\ Len(MapGet(phpWorkspaceIndex, <<"Greeter", "::", "hello">>)) = 2

-----------------------------------------------------------------------------
(* Properties of the built-in signature lookup (specification SpecReflection) *)

\* C32: the promise of the reflection query never rejects and settles at most
\* once; it carries the parsed output when the process closed with a valid
\* object before the deadline, and no result when the process could not be
\* started, closed with an empty or unparseable output, or the deadline came
\* first (whatever is printed afterwards); a lookup without result leaves the
\* cache without an entry for its key.
ReflectionBestEffort ==
  /\ reflection.promise # "rejected"
  /\ reflection.settles <= 1
  /\ reflection.promise = "resolved" =>
       /\ reflection.settledBy = "close" => reflection.payload = ParseOutput(reflection.stdout)
       /\ reflection.settledBy \in {"error", "deadline"} => reflection.payload = "null"
  /\ (reflection.phase = "returned" /\ reflection.result = <<>>) =>
       <<reflection.phpPath, reflection.functionName>>
         \notin DOMAIN phpBuiltInFunctionSignatureCache
  /\ reflection.phase # "threw"

-----------------------------------------------------------------------------
(* Properties of the Debouncer (specification SpecDebouncerFair) *)

\* Event i of the log concerns key k.
Concerns(i, k) == debounceLog[i].key = k \/ debounceLog[i].op = "cancelAll"

\* The last event before position i that concerns key k; 0 when there is none.
LastConcerning(k, i) ==
  The({ IF before = {} THEN 0 ELSE CHOOSE j \in before : \A x \in before : x <= j :
        before \in {{j \in 1..(i - 1) : Concerns(j, k)}} })

IsRegistration(i) == i # 0 /\ debounceLog[i].op \in {"debounce", "debounceAsync"}

\* Every action run is the one registered by the last call for its key, with no
\* run or cancellation of the key in between.
OnlyLastRuns ==
  \A i \in 1..Len(debounceLog) :
    debounceLog[i].op = "run" =>
      \E j \in {LastConcerning(debounceLog[i].key, i)} :
        IsRegistration(j) /\ debounceLog[j].fn = debounceLog[i].fn

\* The timers map holds a key exactly while the last event of the key is a
\* registration, and then the handle of that registration, whose timer is live;
\* no other timer is live.
TimersHoldPending ==
  /\ \A k \in DebounceKeys :
       \E j \in {LastConcerning(k, Len(debounceLog) + 1)} :
         IF IsRegistration(j)
         THEN k \in DOMAIN debouncerTimers /\ debouncerTimers[k] = j /\ j \in liveTimeouts
         ELSE k \notin DOMAIN debouncerTimers
  /\ liveTimeouts = {debouncerTimers[k] : k \in DOMAIN debouncerTimers}

\* C33: only the action of the last debounce of a key runs, once, whatever is
\* done with other keys; the timers map holds a key exactly while an action is
\* pending for it; a cancelled or replaced action never runs; and an action
\* that stays pending does run: the calls of a behaviour are MaxCalls at most,
\* and once they have ended no timer stays live, so that every timer set was
\* cleared by a later call or has run its action.
DebounceReplaces ==
  /\ [](OnlyLastRuns /\ TimersHoldPending)
  /\ <>[](liveTimeouts = {})

\* Key k1 was debounced with f and then with g, and g alone has run.
DebounceReplacesWitness ==
  /\ Len(debounceLog) = 3
  /\ debounceLog[1] = Event("debounce", "k1", "f")
  /\ debounceLog[2] = Event("debounce", "k1", "g")
  /\ debounceLog[3] = Event("run", "k1", "g")
  /\ debouncerTimers = EmptyMap

\* C37: the promise of every debounceAsync call eventually settles.
AsyncPromiseSettles ==
  \A h \in Handles :
    [](h <= Len(debounceLog) /\ debounceLog[h].op = "debounceAsync"
         => <>(h \in settledPromises))

-----------------------------------------------------------------------------
(* Properties of the ClassInfo map (specification Spec) *)

\* The fully-qualified class names that the indexed text of some file declares.
DeclaredClassFqns ==
  UNION {ClassFqnsOfText(indexedText[g]) : g \in {h \in Files : indexedText[h] # Absent}}

\* C34: every class FQN key that maps to at least one Location has a ClassInfo
\* entry, and the file of that entry is one of the files that have a Location
\* under the key.
ClassInfoOwned ==
  \A q \in DeclaredClassFqns :
    (q \in DOMAIN phpWorkspaceIndex /\ phpWorkspaceIndex[q] # <<>>) =>
      \E i \in 1..Len(phpWorkspaceClassInfoByFqn) :
        /\ phpWorkspaceClassInfoByFqn[i].fqn = q
        /\ HasLocationIn(phpWorkspaceIndex, q, phpWorkspaceClassInfoByFqn[i].uri)

-----------------------------------------------------------------------------
(* Properties of a reference build that the index overtakes (specification
   SpecStaleness) *)

\* The index version changed between two file reads of the scan.
MutatedBetweenReads(scan) ==
  \E i, j \in 1..Len(scan) : i < j /\ scan[i].version # scan[j].version

\* C35: a reference build during which the Workspace Symbol Index was mutated
\* between two file reads leaves, when it finishes, a recorded version that
\* differs from the index version, so that the next call rescans.
MutatedBuildStaysStale ==
  [][ (ReferenceBuildResolves /\ MutatedBetweenReads(referenceScan')) =>
        ~ReferenceIndexIsCurrent(phpWorkspaceReferenceIndexVersion',
                                 phpWorkspaceIndexVersion') ]_vars

-----------------------------------------------------------------------------
(* Properties of a full build among editor events (specification
   SpecInterleaving) *)

\* C36: when a full build completes, every file it enumerated and read has the
\* symbols of its current content in the index, whatever open, change, timer
\* and close events were handled between the reads.
BuildConsistentUnderInterleaving ==
  [][ (BuildEnds /\ phpWorkspaceIndexBuilding.phase = "files") =>
        \A r \in ReadsOfScan(indexScan') :
          (r.text # Absent /\ CurrentText(r.uri)' # Absent)
            => indexedText'[r.uri] = CurrentText(r.uri)' ]_vars

-----------------------------------------------------------------------------
(* Properties of the local resolution of static references (specification
   SpecLocalStatic) *)

\* The name of the class of the static reference of a document: the last segment
\* of the name the document imports under the class token, else of the token.
StaticClassName(lines) ==
  The({ IF Len(ref.classToken) = 1 /\ ImportedAs(lines, ref.classToken[1]) # <<>>
        THEN ImportedAs(lines, ref.classToken[1])[Len(ImportedAs(lines, ref.classToken[1]))]
        ELSE ref.classToken[Len(ref.classToken)] :
        ref \in {StaticReferenceOf(GetText(lines))} })

\* The offsets of the document at which the body of its class C declares a
\* method or a constant named m, for its static reference C::m.
StaticMemberOffsets(lines) ==
  The({ {i \in range[1]..range[2] :
           /\ range # <<0, 0>>
           /\ \/ MatchAt("function", text, i).ok
                 /\ text[MatchAt("function", text, i).nameIndex] = ref.member
              \/ MatchAt("const", text, i).ok
                 /\ text[MatchAt("const", text, i).nameIndex] = ref.member} :
        text \in {GetText(lines)},
        ref \in {StaticReferenceOf(GetText(lines))},
        range \in {findPhpClassMemberRange(GetText(lines), StaticClassName(lines))} })

\* C38: the local resolution of a static reference C::m gives no result when the
\* document does not declare C, or declares it without a member m; a result is
\* the place of m in the body of C, never another declaration of the document.
StaticLocalOnlyMembers ==
  (definitionRequest.kind = "staticLocal" /\ definitionRequest.result # <<>>) =>
    \A i \in 1..Len(definitionRequest.result) :
      definitionRequest.result[i].pos \in StaticMemberOffsets(definitionRequest.text)

-----------------------------------------------------------------------------
(* Properties of type tokens with a leading backslash (specification
   SpecRooted) *)

\* C39: a supertype written with a leading backslash after extends or
\* implements is recorded as the same name without that backslash, whatever
\* the namespace and the imports of the file are.
RootedTokenUnchanged ==
  \A f \in Files :
    indexedText[f] # Absent =>
      \A n \in ClassLines(indexedText[f]) :
        \A info \in RecordedFor(f, indexedText[f], n) :
          \A i \in 1..(Len(indexedText[f][n]) - 2) :
            \E line \in {indexedText[f][n]} :
              /\ (line[i] = "extends" /\ line[i + 1] = "\\")
                   => Holds(info.extends, SubSeq(line, i + 2, NameRunEnd(line, i + 2)))
              /\ (line[i] = "implements" /\ line[i + 1] = "\\")
                   => Holds(info.implements, SubSeq(line, i + 2, NameRunEnd(line, i + 2)))

=============================================================================
